-------------------------- MODULE Spec2Model --------------------------
(***************************************************************************)
(* A model of the qualidoo command-line client: the typed classification   *)
(* of HTTP responses (QualidooClient._handle_response), the job poll loop  *)
(* (QualidooClient.wait_for_completion), the upload archive (upload_addon  *)
(* and _should_skip_file), the credentials and the connection of a client, *)
(* the progress display of the check command, the login command, the       *)
(* config file calls (set_api_key, remove_api_key, get_api_key), the whole *)
(* check command with its --save file (json.dumps and the json.load that   *)
(* reads it back), and the reuse of one client across close() calls.       *)
(*                                                                         *)
(* Text is modelled as a sequence of one-character strings, so that        *)
(* str.lower(), the substring test `in`, and f-string concatenation are    *)
(* computed character by character.  Time is counted in integer ticks.     *)
(***************************************************************************)
EXTENDS Integers, Sequences, FiniteSets, TLC

(***************************************************************************)
(* Bounds of the model.                                                    *)
(***************************************************************************)
\* longest detail text drawn exhaustively from DetailAlphabet
MaxDetailLen == 4
\* most status requests one call of wait_for_completion may issue
MaxPolls == 3
\* largest timeout (in ticks) passed to wait_for_completion
MaxTimeout == 2
\* most regular files beneath an addon root
MaxFiles == 2
\* most parts of a path given to _should_skip_file
MaxPathLen == 2
\* most requests sent inside one `with` block
MaxRequests == 2
\* most calls made on the config file in one run
MaxCalls == 4
\* most close() calls made on one client
MaxCloses == 3

(***************************************************************************)
(* Text helpers.                                                           *)
(***************************************************************************)
UpperLetters ==
    <<"A", "B", "C", "D", "E", "F", "G", "H", "I", "J", "K", "L", "M",
      "N", "O", "P", "Q", "R", "S", "T", "U", "V", "W", "X", "Y", "Z">>

LowerLetters ==
    <<"a", "b", "c", "d", "e", "f", "g", "h", "i", "j", "k", "l", "m",
      "n", "o", "p", "q", "r", "s", "t", "u", "v", "w", "x", "y", "z">>

\* str.lower() on one character
LowerChar(c) ==
    IF \E i \in 1..Len(UpperLetters) : UpperLetters[i] = c
    THEN LowerLetters[CHOOSE i \in 1..Len(UpperLetters) : UpperLetters[i] = c]
    ELSE c

\* str.lower()
Lower(s) == [i \in 1..Len(s) |-> LowerChar(s[i])]

\* the Python test `needle in hay` on two strings
Contains(hay, needle) ==
    \E i \in 0..(Len(hay) - Len(needle)) :
        SubSeq(hay, i + 1, i + Len(needle)) = needle

DigitChars == <<"0", "1", "2", "3", "4", "5", "6", "7", "8", "9">>

RECURSIVE NatStr(_)
\* str(n) for a natural number
NatStr(n) ==
    IF n < 10 THEN <<DigitChars[n + 1]>>
    ELSE NatStr(n \div 10) \o <<DigitChars[(n % 10) + 1]>>

\* str(n) for an integer
IntStr(n) == IF n < 0 THEN <<"-">> \o NatStr(-n) ELSE NatStr(n)

\* str(x) for a whole-valued float, as an f-string prints it
FloatStr(n) == IntStr(n) \o <<".", "0">>

RECURSIVE TextsUpTo(_, _)
\* every text over alphabet A of length at most n
TextsUpTo(A, n) ==
    IF n = 0 THEN {<<>>}
    ELSE LET shorter == TextsUpTo(A, n - 1)
         IN  shorter \cup {Append(s, c) : s \in shorter, c \in A}

(***************************************************************************)
(* String literals of the program and of the sample inputs.                *)
(***************************************************************************)
\* the texts of the messages the client raises with
MSG ==
    [AUTH_FAILED |->
        <<"A", "u", "t", "h", "e", "n", "t", "i", "c", "a", "t", "i", "o",
          "n", " ", "f", "a", "i", "l", "e", "d", ".", " ", "R", "u", "n",
          " ", "'", "q", "u", "a", "l", "i", "d", "o", "o", " ", "l", "o",
          "g", "i", "n", "'", " ", "t", "o", " ", "r", "e", "c", "o", "n",
          "f", "i", "g", "u", "r", "e", ".">>,
     UPGRADE |->
        <<"A", "P", "I", " ", "a", "c", "c", "e", "s", "s", " ", "r", "e",
          "q", "u", "i", "r", "e", "s", " ", "P", "r", "o", " ", "s", "u",
          "b", "s", "c", "r", "i", "p", "t", "i", "o", "n", ".", " ", "U",
          "p", "g", "r", "a", "d", "e", " ", "a", "t", " ", "q", "u", "a",
          "l", "i", "d", "o", "o", ".", "a", "i", "d", "o", "o", "i", "t",
          ".", "c", "o", "m">>,
     FORBIDDEN_PREFIX |->
        <<"A", "c", "c", "e", "s", "s", " ", "f", "o", "r", "b", "i", "d",
          "d", "e", "n", ":", " ">>,
     NOT_FOUND |->
        <<"R", "e", "s", "o", "u", "r", "c", "e", " ", "n", "o", "t", " ",
          "f", "o", "u", "n", "d", ".">>,
     RATE_LIMIT |->
        <<"R", "a", "t", "e", " ", "l", "i", "m", "i", "t", " ", "e", "x",
          "c", "e", "e", "d", "e", "d", ".", " ", "T", "r", "y", " ", "a",
          "g", "a", "i", "n", " ", "l", "a", "t", "e", "r", ".">>,
     API_ERROR_PREFIX |->
        <<"A", "P", "I", " ", "e", "r", "r", "o", "r", ":", " ">>,
     ANALYSIS_FAILED_PREFIX |->
        <<"A", "n", "a", "l", "y", "s", "i", "s", " ", "f", "a", "i", "l",
          "e", "d", ":", " ">>,
     UNKNOWN_ERROR |->
        <<"U", "n", "k", "n", "o", "w", "n", " ", "e", "r", "r", "o", "r">>,
     JOB |->
        <<"J", "o", "b", " ">>,
     DID_NOT_COMPLETE |->
        <<" ", "d", "i", "d", " ", "n", "o", "t", " ", "c", "o", "m", "p",
          "l", "e", "t", "e", " ", "w", "i", "t", "h", "i", "n", " ">>,
     SECONDS |->
        <<" ", "s", "e", "c", "o", "n", "d", "s">>,
     PATH_NOT_FOUND |->
        <<"A", "d", "d", "o", "n", " ", "p", "a", "t", "h", " ", "n", "o",
          "t", " ", "f", "o", "u", "n", "d", ":", " ">>,
     NOT_A_DIRECTORY |->
        <<"A", "d", "d", "o", "n", " ", "p", "a", "t", "h", " ", "m", "u",
          "s", "t", " ", "b", "e", " ", "a", " ", "d", "i", "r", "e", "c",
          "t", "o", "r", "y", ":", " ">>]

\* the texts the client compares with or formats
STR ==
    [tier |->
        <<"t", "i", "e", "r">>,
     subscription |->
        <<"s", "u", "b", "s", "c", "r", "i", "p", "t", "i", "o", "n">>,
     completed |->
        <<"c", "o", "m", "p", "l", "e", "t", "e", "d">>,
     failed |->
        <<"f", "a", "i", "l", "e", "d">>,
     pending |->
        <<"p", "e", "n", "d", "i", "n", "g">>,
     running |->
        <<"r", "u", "n", "n", "i", "n", "g">>,
     processing |->
        <<"p", "r", "o", "c", "e", "s", "s", "i", "n", "g">>,
     py_None |->
        <<"N", "o", "n", "e">>,
     null |->
        <<"n", "u", "l", "l">>]

\* the keys of the JSON objects and of the config file
K ==
    [detail |->
        <<"d", "e", "t", "a", "i", "l">>,
     status |->
        <<"s", "t", "a", "t", "u", "s">>,
     error |->
        <<"e", "r", "r", "o", "r">>,
     overall_score |->
        <<"o", "v", "e", "r", "a", "l", "l", "_", "s", "c", "o", "r", "e">>,
     job_id |->
        <<"j", "o", "b", "_", "i", "d">>,
     api_key |->
        <<"a", "p", "i", "_", "k", "e", "y">>,
     api_url |->
        <<"a", "p", "i", "_", "u", "r", "l">>]

\* sample texts of responses: details, bodies, statuses
TXT ==
    [access_denied |->
        <<"A", "c", "c", "e", "s", "s", " ", "d", "e", "n", "i", "e", "d">>,
     subscription_required |->
        <<"S", "u", "b", "s", "c", "r", "i", "p", "t", "i", "o", "n", " ",
          "r", "e", "q", "u", "i", "r", "e", "d">>,
     SUBSCRIPTION |->
        <<"S", "U", "B", "S", "C", "R", "I", "P", "T", "I", "O", "N">>,
     subscriptio |->
        <<"s", "u", "b", "s", "c", "r", "i", "p", "t", "i", "o">>,
     free_tier_limit |->
        <<"F", "r", "e", "e", " ", "T", "I", "E", "R", " ", "l", "i", "m",
          "i", "t">>,
     bad_gateway |->
        <<"B", "a", "d", " ", "G", "a", "t", "e", "w", "a", "y">>,
     upgrade_your_tier |->
        <<"u", "p", "g", "r", "a", "d", "e", " ", "y", "o", "u", "r", " ",
          "t", "i", "e", "r">>,
     invalid_addon |->
        <<"i", "n", "v", "a", "l", "i", "d", " ", "a", "d", "d", "o", "n",
          " ", "s", "t", "r", "u", "c", "t", "u", "r", "e">>,
     queued |->
        <<"q", "u", "e", "u", "e", "d">>,
     COMPLETED |->
        <<"C", "O", "M", "P", "L", "E", "T", "E", "D">>,
     FAILED |->
        <<"F", "A", "I", "L", "E", "D">>,
     job |->
        <<"t", "e", "s", "t", "-", "j", "o", "b", "-", "1", "2", "3">>]

\* names of files and directories: the skip patterns, and samples
SEG ==
    [manifest |->
        <<"_", "_", "m", "a", "n", "i", "f", "e", "s", "t", "_", "_", ".",
          "p", "y">>,
     pycache |->
        <<"_", "_", "p", "y", "c", "a", "c", "h", "e", "_", "_">>,
     git |->
        <<".", "g", "i", "t">>,
     svn |->
        <<".", "s", "v", "n">>,
     hg |->
        <<".", "h", "g">>,
     pyc |->
        <<".", "p", "y", "c">>,
     pyo |->
        <<".", "p", "y", "o">>,
     egg_info |->
        <<".", "e", "g", "g", "-", "i", "n", "f", "o">>,
     eggs |->
        <<".", "e", "g", "g", "s">>,
     node_modules |->
        <<"n", "o", "d", "e", "_", "m", "o", "d", "u", "l", "e", "s">>,
     dot_venv |->
        <<".", "v", "e", "n", "v">>,
     venv |->
        <<"v", "e", "n", "v">>,
     models |->
        <<"m", "o", "d", "e", "l", "s">>,
     venvs |->
        <<"v", "e", "n", "v", "s">>,
     my_egg_info |->
        <<"m", "y", ".", "e", "g", "g", "-", "i", "n", "f", "o">>,
     gitignore |->
        <<".", "g", "i", "t", "i", "g", "n", "o", "r", "e">>,
     init_py |->
        <<"_", "_", "i", "n", "i", "t", "_", "_", ".", "p", "y">>,
     model_pyc |->
        <<"m", "o", "d", "e", "l", ".", "p", "y", "c">>,
     model_pyo |->
        <<"m", "o", "d", "e", "l", ".", "p", "y", "o">>,
     pycx |->
        <<"a", ".", "p", "y", "c", "x">>,
     root |->
        <<"/">>,
     home |->
        <<"h", "o", "m", "e">>,
     addon |->
        <<"m", "y", "_", "a", "d", "d", "o", "n">>,
     config |->
        <<"c", "o", "n", "f", "i", "g">>,
     PKG_INFO |->
        <<"P", "K", "G", "-", "I", "N", "F", "O">>,
     cache_pyc |->
        <<"c", "a", "c", "h", "e", ".", "p", "y", "c">>]

\* the request paths
PATH ==
    [UPLOAD |->
        <<"/", "a", "p", "i", "/", "v", "1", "/", "a", "n", "a", "l", "y",
          "z", "e", "/", "u", "p", "l", "o", "a", "d">>,
     AUTH_ME |->
        <<"/", "a", "p", "i", "/", "v", "1", "/", "a", "u", "t", "h", "/",
          "m", "e">>,
     JOBS |->
        <<"/", "a", "p", "i", "/", "v", "1", "/", "j", "o", "b", "s", "/">>,
     RESULT |->
        <<"/", "r", "e", "s", "u", "l", "t">>]

\* sample API keys
KEY ==
    [valid |->
        <<"q", "d", "o", "o", "_", "a", "1", "b", "2", "c", "3", "d", "4",
          "e", "5", "f", "6", "g", "7", "h", "8", "i", "9", "j", "0", "k",
          "1", "l", "2", "m", "3", "n", "4", "o", "5", "p", "6">>,
     env |->
        <<"q", "d", "o", "o", "_", "t", "e", "s", "t", "1", "2", "3", "4",
          "5", "6", "7", "8", "9", "0", "1", "2", "3", "4", "5", "6", "7",
          "8", "9", "0", "1", "2", "3", "4">>,
     config |->
        <<"q", "d", "o", "o", "_", "f", "r", "o", "m", "_", "c", "o", "n",
          "f", "i", "g", "_", "f", "i", "l", "e", "_", "1", "2", "3", "4",
          "5", "6", "7", "8", "9", "0">>,
     new |->
        <<"q", "d", "o", "o", "_", "n", "e", "w", "_", "k", "e", "y", "_",
          "1", "2", "3", "4", "5", "6", "7", "8", "9", "0", "1", "2", "3",
          "4", "5", "6", "7", "8", "9", "0">>,
     short |->
        <<"q", "d", "o", "o", "_", "s", "h", "o", "r", "t">>,
     special |->
        <<"q", "d", "o", "o", "_", "a", "1", "b", "2", "c", "3", "d", "4",
          "e", "5", "f", "6", "g", "7", "h", "8", "i", "9", "j", "0", "k",
          "1", "l", "2", "m", "3", "n", "4", "!", "@", "#", "$">>,
     wrong_prefix |->
        <<"a", "p", "i", "_", "a", "1", "b", "2", "c", "3", "d", "4", "e",
          "5", "f", "6", "g", "7", "h", "8", "i", "9", "j", "0", "k", "1",
          "l", "2", "m", "3", "n", "4", "o", "5", "p", "6">>,
     upper_prefix |->
        <<"Q", "D", "O", "O", "_", "a", "1", "b", "2", "c", "3", "d", "4",
          "e", "5", "f", "6", "g", "7", "h", "8", "i", "9", "j", "0", "k",
          "1", "l", "2", "m", "3", "n", "4", "o", "5", "p", "6">>]

\* sample base URLs
URL ==
    [custom_example |->
        <<"h", "t", "t", "p", "s", ":", "/", "/", "c", "u", "s", "t", "o",
          "m", ".", "e", "x", "a", "m", "p", "l", "e", ".", "c", "o", "m">>,
     custom |->
        <<"h", "t", "t", "p", "s", ":", "/", "/", "c", "u", "s", "t", "o",
          "m", ".", "c", "o", "m">>,
     example |->
        <<"h", "t", "t", "p", "s", ":", "/", "/", "e", "x", "a", "m", "p",
          "l", "e", ".", "c", "o", "m">>,
     example_slash |->
        <<"h", "t", "t", "p", "s", ":", "/", "/", "e", "x", "a", "m", "p",
          "l", "e", ".", "c", "o", "m", "/">>,
     example_slashes |->
        <<"h", "t", "t", "p", "s", ":", "/", "/", "e", "x", "a", "m", "p",
          "l", "e", ".", "c", "o", "m", "/", "/">>]

\* the messages of the check command (cli.py), and a sample OSError text
CLI ==
    [NOT_LOGGED_IN |->
        <<"N", "o", "t", " ", "l", "o", "g", "g", "e", "d", " ", "i", "n",
          ".", " ", "R", "u", "n", " ", "'", "q", "u", "a", "l", "i", "d",
          "o", "o", " ", "l", "o", "g", "i", "n", "'", " ", "f", "i", "r",
          "s", "t", ".">>,
     NOT_AN_ADDON |->
        <<"N", "o", "t", " ", "a", " ", "v", "a", "l", "i", "d", " ", "O",
          "d", "o", "o", " ", "a", "d", "d", "o", "n", ":", " ", "m", "i",
          "s", "s", "i", "n", "g", " ", "_", "_", "m", "a", "n", "i", "f",
          "e", "s", "t", "_", "_", ".", "p", "y", " ", "i", "n", " ">>,
     AUTH_FAILED |->
        <<"A", "u", "t", "h", "e", "n", "t", "i", "c", "a", "t", "i", "o",
          "n", " ", "f", "a", "i", "l", "e", "d", ".", " ", "R", "u", "n",
          " ", "'", "q", "u", "a", "l", "i", "d", "o", "o", " ", "l", "o",
          "g", "i", "n", "'", " ", "t", "o", " ", "r", "e", "c", "o", "n",
          "f", "i", "g", "u", "r", "e", ".">>,
     RATE_LIMIT |->
        <<"R", "a", "t", "e", " ", "l", "i", "m", "i", "t", " ", "e", "x",
          "c", "e", "e", "d", "e", "d", ".", " ", "T", "r", "y", " ", "a",
          "g", "a", "i", "n", " ", "l", "a", "t", "e", "r", ".">>,
     NO_JOB_ID |->
        <<"N", "o", " ", "j", "o", "b", " ", "I", "D", " ", "r", "e", "t",
          "u", "r", "n", "e", "d", " ", "f", "r", "o", "m", " ", "u", "p",
          "l", "o", "a", "d", ".">>,
     TIMED_OUT |->
        <<"A", "n", "a", "l", "y", "s", "i", "s", " ", "t", "i", "m", "e",
          "d", " ", "o", "u", "t", " ", "a", "f", "t", "e", "r", " ">>,
     SECONDS |->
        <<" ", "s", "e", "c", "o", "n", "d", "s", ".">>,
     API_ERROR |->
        <<"A", "P", "I", " ", "e", "r", "r", "o", "r", ":", " ">>,
     UNEXPECTED |->
        <<"U", "n", "e", "x", "p", "e", "c", "t", "e", "d", " ", "e", "r",
          "r", "o", "r", ":", " ">>,
     SAVE_FAILED |->
        <<"F", "a", "i", "l", "e", "d", " ", "t", "o", " ", "s", "a", "v",
          "e", " ", "r", "e", "s", "u", "l", "t", ":", " ">>,
     permission_denied |->
        <<"[", "E", "r", "r", "n", "o", " ", "1", "3", "]", " ", "P", "e",
          "r", "m", "i", "s", "s", "i", "o", "n", " ", "d", "e", "n", "i",
          "e", "d">>,
     one |->
        <<"1">>]

DEFAULT_API_URL ==
    <<"h", "t", "t", "p", "s", ":", "/", "/", "q", "u", "a", "l", "i", "d",
      "o", "o", ".", "a", "i", "d", "o", "o", "i", "t", ".", "c", "o", "m">>

USER_AGENT ==
    <<"q", "u", "a", "l", "i", "d", "o", "o", "-", "c", "l", "i", "/", "0",
      ".", "2", ".", "0">>

API_KEY_PREFIX ==
    <<"q", "d", "o", "o", "_">>

(***************************************************************************)
(* JSON values, as json.loads returns them.  An object is the sequence of  *)
(* its <<key, value>> members in document order.                           *)
(***************************************************************************)
JNull == [t |-> "null"]

JStr(s) == [t |-> "str", v |-> s]

JNum(n) == [t |-> "num", v |-> n]

JList(items) == [t |-> "list", v |-> items]

JObj(members) == [t |-> "obj", v |-> members]

\* true and false
JBool(b) == [t |-> "bool", v |-> b]

\* what response.json() is for a body that is not JSON: the call raises
JInvalid == [t |-> "invalid"]

\* an absent optional value (Python None) and a present one
None == <<>>

Some(x) == <<x>>

HasKey(d, k) == \E i \in 1..Len(d.v) : d.v[i][1] = k

\* dict.get(k, default); a key repeated in the document keeps its last value
DictGet(d, k, default) ==
    IF HasKey(d, k)
    THEN LET last == CHOOSE i \in 1..Len(d.v) :
                         /\ d.v[i][1] = k
                         /\ \A j \in (i + 1)..Len(d.v) : d.v[j][1] # k
         IN  d.v[last][2]
    ELSE default

\* variant that writes every character as it is
EscapeCharVerbatim(c) == <<c>>

\* one character inside a JSON string, as the encoder writes it
EscapeChar(c) ==
    CASE c = "\"" -> <<"\\", "\"">>
      [] c = "\\" -> <<"\\", "\\">>
      [] c = "\n" -> <<"\\", "n">>
      [] OTHER    -> <<c>>

RECURSIVE Escape(_)
Escape(s) == IF s = <<>> THEN <<>> ELSE EscapeChar(Head(s)) \o Escape(Tail(s))

\* a string or a key, quoted
Quoted(s) == <<"\"">> \o Escape(s) \o <<"\"">>

RECURSIVE Dumps(_)
RECURSIVE DumpItems(_)
RECURSIVE DumpMembers(_)
\* the compact JSON text of a value (the body text the service sends)
Dumps(j) ==
    CASE j.t = "null" -> STR.null
      [] j.t = "bool" -> IF j.v THEN <<"t", "r", "u", "e">>
                         ELSE <<"f", "a", "l", "s", "e">>
      [] j.t = "str"  -> Quoted(j.v)
      [] j.t = "num"  -> IntStr(j.v)
      [] j.t = "list" -> <<"[">> \o DumpItems(j.v) \o <<"]">>
      [] j.t = "obj"  -> <<"{">> \o DumpMembers(j.v) \o <<"}">>

DumpItems(items) ==
    IF Len(items) = 0 THEN <<>>
    ELSE Dumps(Head(items))
         \o (IF Len(items) > 1 THEN <<",">> ELSE <<>>)
         \o DumpItems(Tail(items))

DumpMembers(members) ==
    IF Len(members) = 0 THEN <<>>
    ELSE Quoted(Head(members)[1]) \o <<":">> \o Dumps(Head(members)[2])
         \o (IF Len(members) > 1 THEN <<",">> ELSE <<>>)
         \o DumpMembers(Tail(members))

\* str(x), as an f-string formats a value: a string is itself, None is
\* "None", an integer its decimal form, an empty list "[]"
PyStr(j) ==
    CASE j.t = "str"  -> j.v
      [] j.t = "null" -> STR.py_None
      [] j.t = "num"  -> IntStr(j.v)
      [] j.t = "list" /\ Len(j.v) = 0 -> <<"[", "]">>

(***************************************************************************)
(* HTTP responses.  A body is its raw text together with what              *)
(* response.json() makes of it.                                            *)
(***************************************************************************)
JsonBody(j) == [text |-> Dumps(j), json |-> j]

RawBody(text) == [text |-> text, json |-> JInvalid]

Response(code, body) == [status_code |-> code, body |-> body]

(***************************************************************************)
(* Outcomes of a call: a returned value, or a raised exception with its    *)
(* class, message and status_code attribute.                               *)
(***************************************************************************)
Return(value) ==
    [kind |-> "ok", message |-> <<>>, status_code |-> None, value |-> value]

Raise(kind, message, status_code) ==
    [kind |-> kind, message |-> message, status_code |-> status_code,
     value |-> JNull]

\* the exception classes of api_client.py: APIError and its four subclasses
APIErrorKinds ==
    {"APIError", "AuthenticationError", "ForbiddenError", "RateLimitError",
     "NotFoundError"}

\* `response.json().get("detail", default)` inside try/except Exception:
\* a body that is not JSON (json() raises) or not an object (no .get) gives
\* the fallback
DetailOrFallback(response, default, fallback) ==
    IF response.body.json.t = "obj"
    THEN DictGet(response.body.json, K.detail, default)
    ELSE fallback

\* case-sensitive variant of the tier test
IsUpgradeDetailCaseSensitive(text) ==
    Contains(text, STR.tier) \/ Contains(text, STR.subscription)

\* "tier" in detail.lower() or "subscription" in detail.lower()
IsUpgradeDetail(text) ==
    Contains(Lower(text), STR.tier) \/ Contains(Lower(text), STR.subscription)

\* the 403 branch
HandleForbidden(response) ==
    LET detail == DetailOrFallback(response, JStr(<<>>), JStr(<<>>))
    IN  IF detail.t # "str"
        THEN \* detail.lower() is outside the try: a detail that is not a
             \* string has no .lower()
             Raise("AttributeError", <<>>, None)
        ELSE IF IsUpgradeDetail(detail.v)
        THEN Raise("ForbiddenError", MSG.UPGRADE, Some(403))
        ELSE Raise("ForbiddenError", MSG.FORBIDDEN_PREFIX \o PyStr(detail),
                   Some(403))

\* variant of the generic branch that drops the raw body text
GenericDetailNoBody(response) ==
    DetailOrFallback(response, JStr(<<>>), JStr(<<>>))

\* the detail of the generic branch: the detail field, else the body text
GenericDetail(response) ==
    DetailOrFallback(response, JStr(response.body.text),
                     JStr(response.body.text))

\* the branch for any other status >= 400
HandleGeneric(response) ==
    Raise("APIError", MSG.API_ERROR_PREFIX \o PyStr(GenericDetail(response)),
          Some(response.status_code))

\* `return response.json()`: json() raises on a body that is not JSON
HandleSuccess(response) ==
    IF response.body.json.t = "invalid"
    THEN Raise("JSONDecodeError", <<>>, None)
    ELSE Return(response.body.json)

\* QualidooClient._handle_response
HandleResponse(response) ==
    IF response.status_code = 401
    THEN Raise("AuthenticationError", MSG.AUTH_FAILED, Some(401))
    ELSE IF response.status_code = 403
    THEN HandleForbidden(response)
    ELSE IF response.status_code = 404
    THEN Raise("NotFoundError", MSG.NOT_FOUND, Some(404))
    ELSE IF response.status_code = 429
    THEN Raise("RateLimitError", MSG.RATE_LIMIT, Some(429))
    ELSE IF response.status_code >= 400
    THEN HandleGeneric(response)
    ELSE HandleSuccess(response)

(***************************************************************************)
(* Inputs: the responses the service may send.                             *)
(***************************************************************************)
DetailAlphabet == {"t", "T", "i", "e", "r"}

\* detail texts: every short text over the alphabet, and longer samples
DetailTexts ==
    TextsUpTo(DetailAlphabet, MaxDetailLen)
    \cup {STR.tier, TXT.access_denied, TXT.subscription_required,
          TXT.SUBSCRIPTION, TXT.subscriptio, TXT.free_tier_limit}

\* values of a body's detail field: strings, and JSON that is not a string
DetailValues ==
    {JStr(s) : s \in DetailTexts} \cup {JNull, JNum(5), JList(<<>>)}

Bodies ==
    {JsonBody(JObj(<<<<K.detail, d>>>>)) : d \in DetailValues}
    \cup {JsonBody(JObj(<<<<K.error, JStr(TXT.upgrade_your_tier)>>>>)),
          JsonBody(JObj(<<>>)),
          JsonBody(JList(<<>>)),
          JsonBody(JStr(STR.tier)),
          RawBody(TXT.bad_gateway),
          RawBody(TXT.upgrade_your_tier),
          RawBody(<<>>)}

StatusCodes == {200, 201, 302, 399, 400, 401, 402, 403, 404, 422, 429, 500, 503}

Responses == {Response(c, b) : c \in StatusCodes, b \in Bodies}

\* status payloads of GET /api/v1/jobs/{job_id}
StatusTexts ==
    {STR.completed, TXT.COMPLETED, STR.failed, STR.pending, STR.running,
     STR.processing, TXT.queued}

StatusPayloads ==
    {JObj(<<<<K.status, JStr(s)>>>>) : s \in StatusTexts}
    \cup {JObj(<<<<K.status, JStr(s)>>, <<K.error, e>>>>) :
            s \in {STR.failed, TXT.FAILED},
            e \in {JStr(TXT.invalid_addon), JNull}}
    \cup {JObj(<<>>)}

\* what the service may answer to a status request
StatusResponses ==
    {Response(200, JsonBody(p)) : p \in StatusPayloads}
    \cup {Response(401, JsonBody(JObj(<<>>))),
          Response(429, JsonBody(JObj(<<>>))),
          Response(500, RawBody(TXT.bad_gateway))}

\* result payloads of GET /api/v1/jobs/{job_id}/result
ResultPayloads ==
    {JObj(<<<<K.overall_score, JNum(85)>>>>),
     JObj(<<<<K.overall_score, JNum(40)>>>>),
     JObj(<<<<K.overall_score, JNum(85)>>,
            <<K.detail, JStr(<<"a", "\"", "\\", "\n", "b">>)>>,
            <<K.error, JNull>>>>),
     JObj(<<<<K.overall_score, JNum(-3)>>,
            <<K.status,
              JList(<<JNull, JBool(TRUE), JList(<<>>),
                      JObj(<<<<K.detail, JList(<<JNum(7)>>)>>>>)>>)>>,
            <<K.error, JObj(<<>>)>>>>),
     JObj(<<<<K.overall_score, JStr(STR.tier)>>>>),
     JList(<<>>)}

ResultResponses ==
    {Response(200, JsonBody(p)) : p \in ResultPayloads}
    \cup {Response(404, JsonBody(JObj(<<>>)))}

\* ticks a request, or the code between two clock readings, may take
Durations == {0, 1}

Timeouts == -1..MaxTimeout

PollIntervals == {0, 1}

\* the default of the parameter poll_interval (2.0 seconds)
DefaultPollInterval == 2

\* the {32,} of API_KEY_PATTERN
MinKeyBody == 32

JobId == TXT.job

(***************************************************************************)
(* Paths.  A path is the sequence of its parts (pathlib's Path.parts); the *)
(* addon root is given by the parts of its parent, its own name and what   *)
(* the file system holds there.                                            *)
(***************************************************************************)
\* the set skip_patterns of _should_skip_file
skip_patterns ==
    {SEG.pycache, SEG.git, SEG.svn, SEG.hg, SEG.pyc, SEG.pyo, SEG.egg_info,
     SEG.eggs, SEG.node_modules, SEG.dot_venv, SEG.venv}

\* str.endswith
EndsWith(text, suffix) ==
    /\ Len(text) >= Len(suffix)
    /\ SubSeq(text, Len(text) - Len(suffix) + 1, Len(text)) = suffix

\* _should_skip_file(file_path), given file_path.parts
ShouldSkipFile(parts) ==
    \E i \in 1..Len(parts) :
        parts[i] \in skip_patterns \/ EndsWith(parts[i], SEG.pyc)

RECURSIVE JoinPath(_)
\* the parts of a relative path joined by "/", as str() of the path
JoinPath(parts) ==
    IF parts = <<>> THEN <<>>
    ELSE IF Len(parts) = 1 THEN parts[1]
    ELSE parts[1] \o <<"/">> \o JoinPath(Tail(parts))

\* addon_path.parts
PathParts(path) == path.ancestors \o <<path.name>>

\* str(addon_path): an absolute path has the anchor "/" as its first part
PathStr(path) ==
    IF PathParts(path)[1] = SEG.root
    THEN SEG.root \o JoinPath(Tail(PathParts(path)))
    ELSE JoinPath(PathParts(path))

\* variant in which a missing path is taken to exist
ExistsAlways(path) == TRUE

\* addon_path.exists()
Exists(path) == path.kind # "missing"

\* addon_path.is_dir()
IsDir(path) == path.kind = "dir"

\* addon_path.rglob("*"): the files beneath the root and the directories
\* that lead to them, each relative to the root
RGlob(files) ==
    files \cup UNION {{SubSeq(f, 1, n) : n \in 1..(Len(f) - 1)} : f \in files}

\* variant that names an entry by the file's relative path alone
ArcNameBare(path, rel) == JoinPath(rel)

\* arcname = f"{addon_name}/{file_path.relative_to(addon_path)}"
ArcName(path, rel) == path.name \o <<"/">> \o JoinPath(rel)

\* the files zf.write() is called for: the regular files found by rglob that
\* _should_skip_file, given the whole path, does not skip
Written(path, files) ==
    {e \in RGlob(files) :
        e \in files /\ ~ShouldSkipFile(PathParts(path) \o e)}

\* the ZIP after the loop: how many entries carry each name
ZipOf(path, files) ==
    [a \in {ArcName(path, f) : f \in Written(path, files)} |->
        Cardinality({f \in Written(path, files) : ArcName(path, f) = a})]

\* a request that no response answers
ConnectFailure == [failed |-> TRUE]

Failed(reply) == "failed" \in DOMAIN reply

\* the exception httpx raises in that case
ConnectError == Raise("ConnectError", <<>>, None)

(***************************************************************************)
(* Inputs of upload_addon and _should_skip_file.                           *)
(***************************************************************************)
\* files an addon directory may hold, relative to it
RelPaths ==
    {<<SEG.init_py>>,
     <<SEG.gitignore>>,
     <<SEG.model_pyc>>,
     <<SEG.models, SEG.init_py>>,
     <<SEG.models, SEG.model_pyc>>,
     <<SEG.models, SEG.model_pyo>>,
     <<SEG.pycache, SEG.cache_pyc>>,
     <<SEG.git, SEG.config>>,
     <<SEG.venv, SEG.config>>,
     <<SEG.dot_venv, SEG.config>>,
     <<SEG.node_modules, SEG.config>>,
     <<SEG.my_egg_info, SEG.PKG_INFO>>,
     <<SEG.venvs, SEG.init_py>>}

\* what the service, or the network, may answer to an upload
UploadReplies ==
    {Response(200, JsonBody(JObj(<<<<K.job_id, JStr(JobId)>>>>))),
     Response(200, JsonBody(JObj(<<<<K.job_id, JStr(<<>>)>>>>))),
     Response(200, JsonBody(JObj(<<>>))),
     Response(200, JsonBody(JList(<<>>))),
     Response(401, JsonBody(JObj(<<>>))),
     Response(403, JsonBody(JObj(<<<<K.detail, JStr(TXT.free_tier_limit)>>>>))),
     Response(429, JsonBody(JObj(<<>>))),
     Response(500, RawBody(TXT.bad_gateway)),
     ConnectFailure}

\* what the service, or the network, may answer to a status request and
\* to a result request
StatusReplies == StatusResponses \cup {ConnectFailure}

ResultReplies == ResultResponses \cup {ConnectFailure}

\* the names a path's parts are drawn from
SegmentPool ==
    skip_patterns
    \cup {SEG.models, SEG.venvs, SEG.my_egg_info, SEG.gitignore, SEG.init_py,
          SEG.model_pyc, SEG.model_pyo, SEG.pycx, SEG.config}

RECURSIVE PathsUpTo(_)
\* every path of at most n parts from the pool, none empty
PathsUpTo(n) ==
    IF n = 0 THEN {}
    ELSE {<<s>> : s \in SegmentPool}
         \cup {Append(p, s) : p \in PathsUpTo(n - 1), s \in SegmentPool}

(***************************************************************************)
(* Credentials: the constructor arguments, the environment and the config  *)
(* file, and how QualidooClient.__init__ resolves them.                    *)
(***************************************************************************)
\* Python truth of an optional text: neither None nor ""
Truthy(opt) == opt # None /\ opt[1] # <<>>

\* the Python expression `a or b`
Or(a, b) == IF Truthy(a) THEN a ELSE b

\* the config file: absent, not parseable, or TOML holding a table
NoFile == [kind |-> "missing", data |-> JObj(<<>>)]

BadFile == [kind |-> "corrupt", data |-> JObj(<<>>)]

GoodFile(table) == [kind |-> "toml", data |-> table]

\* load_config(): {} unless the file exists and parses
LoadConfig(file) == IF file.kind = "toml" THEN file.data ELSE JObj(<<>>)

\* variant that starts from an empty dict
DictSetFresh(obj, key, value) == JObj(<<<<key, value>>>>)

\* config[key] = value on a dict
DictSet(obj, key, value) ==
    IF HasKey(obj, key)
    THEN JObj([i \in 1..Len(obj.v) |->
                 IF obj.v[i][1] = key THEN <<key, value>> ELSE obj.v[i]])
    ELSE JObj(Append(obj.v, <<key, value>>))

\* config.get(key): None or the value
ConfigGet(table, key) ==
    IF HasKey(table, key) THEN Some(DictGet(table, key, JNull).v) ELSE None

\* variant that consults the config file before the environment
GetApiKeyConfigFirst(env, file) ==
    IF Truthy(ConfigGet(LoadConfig(file), K.api_key))
    THEN ConfigGet(LoadConfig(file), K.api_key)
    ELSE env.QUALIDOO_API_KEY

\* get_api_key()
GetApiKey(env, file) ==
    IF Truthy(env.QUALIDOO_API_KEY)
    THEN env.QUALIDOO_API_KEY
    ELSE ConfigGet(LoadConfig(file), K.api_key)

\* get_api_url(): os.environ.get("QUALIDOO_API_URL", DEFAULT_API_URL)
GetApiUrl(env) ==
    IF env.QUALIDOO_API_URL # None
    THEN env.QUALIDOO_API_URL[1]
    ELSE DEFAULT_API_URL

RECURSIVE RStripSlash(_)
\* text.rstrip("/")
RStripSlash(text) ==
    IF text # <<>> /\ text[Len(text)] = "/"
    THEN RStripSlash(SubSeq(text, 1, Len(text) - 1))
    ELSE text

\* httpx.Client(base_url=self.api_url, headers=headers, ...)
Connection(url, key) ==
    [base_url |-> url,
     headers |-> [user_agent |-> USER_AGENT,
                  x_api_key |-> IF Truthy(key) THEN key ELSE None]]

Environs ==
    [QUALIDOO_API_KEY : {None, Some(<<>>), Some(KEY.env)},
     QUALIDOO_API_URL : {None, Some(<<>>), Some(URL.custom_example)}]

NoEnviron == [QUALIDOO_API_KEY |-> None, QUALIDOO_API_URL |-> None]

ConfigFiles ==
    {NoFile, BadFile,
     GoodFile(JObj(<<>>)),
     GoodFile(JObj(<<<<K.api_key, JStr(KEY.config)>>>>)),
     GoodFile(JObj(<<<<K.api_key, JStr(<<>>)>>>>)),
     GoodFile(JObj(<<<<K.api_url, JStr(URL.custom)>>>>)),
     GoodFile(JObj(<<<<K.api_key, JStr(KEY.config)>>,
                    <<K.api_url, JStr(URL.custom)>>>>))}

(***************************************************************************)
(* State.                                                                  *)
(***************************************************************************)
VARIABLES
    response,       \* the response handed to _handle_response
    outcome,        \* what _handle_response did with it
    pc,             \* position of wait_for_completion
    timeout,        \* its timeout argument
    poll_interval,  \* its poll_interval argument
    has_callback,   \* whether progress_callback was supplied
    now,            \* the clock, time.time()
    start_time,     \* local start_time
    status,         \* local status: the payload last observed
    observed,       \* every status payload get_job_status returned, in order
    notified,       \* every payload passed to progress_callback, in order
    calls,          \* the calls the loop made, in order
    result,         \* how wait_for_completion ended
    addon_path,     \* upload_addon's argument: where it lies, what is there
    tree,           \* the regular files beneath it, relative to it
    files_read,     \* the files upload_addon read
    archive,        \* the ZIP it built: how many entries carry each name
    upload_result,  \* how upload_addon ended
    skip_path,      \* the parts of the path given to _should_skip_file
    skip_result,    \* what _should_skip_file answered
    conn,           \* self._client: None, or the connection once created
    created,        \* how many connections the client has created
    closed,         \* how many connections the client has closed
    requests,       \* the requests sent, in order
    arg_key,        \* the api_key argument of QualidooClient(...)
    arg_url,        \* the api_url argument of QualidooClient(...)
    environ,        \* os.environ, restricted to the two QUALIDOO_ variables
    config_file,    \* ~/.qualidoo/config.toml
    api_key,        \* self.api_key
    api_url,        \* self.api_url
    started,        \* the flag `started` of the progress callback
    display,        \* what was done to the rich Progress display, in order
    stops,          \* how often progress_cb.stop() was called
    key_input,      \* the key given to login, by option or at the prompt
    exit_code,      \* the exit code of the command, once it has ended
    set_calls,      \* the keys passed to set_api_key, in order
    printed,        \* the messages passed to print_error, in order
    save,           \* the --save option of check, and what its target is
    save_file,      \* the text written to the --save target
    pending,        \* the exception on its way to the outer try of check
    writes          \* how often save_config wrote the config file

vars ==
    <<response, outcome, pc, timeout, poll_interval, has_callback, now,
      start_time, status, observed, notified, calls, result, addon_path,
      tree, files_read, archive, upload_result, skip_path, skip_result,
      conn, created, closed, requests, arg_key, arg_url, environ,
      config_file, api_key, api_url, started, display, stops, key_input,
      exit_code, set_calls, printed, save, save_file, pending, writes>>

pollVars ==
    <<pc, timeout, poll_interval, has_callback, now, start_time, status,
      observed, notified, calls, result>>

handleVars == <<response, outcome>>

uploadVars == <<addon_path, tree, files_read, archive, upload_result>>

skipVars == <<skip_path, skip_result>>

connVars == <<conn, created, closed, requests>>

credVars == <<arg_key, arg_url, environ, config_file, api_key, api_url>>

displayVars == <<started, display, stops>>

loginVars == <<key_input, exit_code, set_calls>>

checkVars == <<printed, save, save_file, pending>>

cliVars == <<displayVars, loginVars, checkVars, writes>>

\* the state that the poll loop and _handle_response never touch
outsidePoll == <<uploadVars, skipVars, credVars, cliVars>>

NotCalled == Raise("NotCalled", <<>>, None)

NoResponse == Response(200, JsonBody(JNull))

Count(seq, x) == Cardinality({i \in 1..Len(seq) : seq[i] = x})

\* upload_addon has not been called
UploadIdle ==
    /\ addon_path = [ancestors |-> <<>>, name |-> <<>>, kind |-> "missing"]
    /\ tree = {}
    /\ files_read = {}
    /\ archive = <<>>
    /\ upload_result = NotCalled

\* _should_skip_file has not been called
SkipIdle ==
    /\ skip_path = <<>>
    /\ skip_result = None

\* self._client = None, as __init__ leaves it
ConnIdle ==
    /\ conn = None
    /\ created = 0
    /\ closed = 0
    /\ requests = <<>>

\* no command is running
CliIdle ==
    /\ started = FALSE
    /\ display = <<>>
    /\ stops = 0
    /\ key_input = None
    /\ exit_code = None
    /\ set_calls = <<>>
    /\ printed = <<>>
    /\ save = "none"
    /\ save_file = None
    /\ pending = None
    /\ writes = 0

\* no client has been constructed
CredIdle ==
    /\ arg_key = None
    /\ arg_url = None
    /\ environ = NoEnviron
    /\ config_file = NoFile
    /\ api_key = None
    /\ api_url = <<>>

\* a client constructed with both arguments given
ClientGiven ==
    /\ arg_key = Some(KEY.valid)
    /\ arg_url = Some(URL.example)
    /\ environ = NoEnviron
    /\ config_file = NoFile
    /\ api_key = Some(KEY.valid)
    /\ api_url = URL.example

\* variant that opens a connection on every access
AcquireClientAlwaysNew ==
    /\ conn' = Some(Connection(api_url, api_key))
    /\ created' = created + 1
    /\ UNCHANGED closed

\* the property `client`: the connection is created on first access
\* and kept
AcquireClient ==
    /\ conn' = IF conn = None THEN Some(Connection(api_url, api_key)) ELSE conn
    /\ created' = IF conn = None THEN created + 1 ELSE created
    /\ UNCHANGED closed

\* self.client.get(path) or self.client.post(path, ...)
SendRequest(method, path) ==
    /\ AcquireClient
    /\ requests' = Append(requests, [method |-> method, path |-> path])

(***************************************************************************)
(* _handle_response applied to one response.                               *)
(***************************************************************************)
InitHandle ==
    /\ response \in Responses
    /\ outcome = NotCalled
    /\ pc = "off"
    /\ timeout = 0
    /\ poll_interval = 0
    /\ has_callback = FALSE
    /\ now = 0
    /\ start_time = 0
    /\ status = JNull
    /\ observed = <<>>
    /\ notified = <<>>
    /\ calls = <<>>
    /\ result = NotCalled
    /\ UploadIdle
    /\ SkipIdle
    /\ ConnIdle
    /\ CredIdle
    /\ CliIdle

CallHandleResponse ==
    /\ pc = "off"
    /\ outcome = NotCalled
    /\ outcome' = HandleResponse(response)
    /\ UNCHANGED <<response, pollVars, outsidePoll, connVars>>

NextHandle == CallHandleResponse

SpecHandle == InitHandle /\ [][NextHandle]_vars

(***************************************************************************)
(* wait_for_completion.                                                    *)
(***************************************************************************)
Init ==
    /\ response = NoResponse
    /\ outcome = NotCalled
    /\ pc = "call"
    /\ timeout \in Timeouts
    /\ poll_interval \in PollIntervals
    /\ has_callback \in BOOLEAN
    /\ now = 0
    /\ start_time = 0
    /\ status = JNull
    /\ observed = <<>>
    /\ notified = <<>>
    /\ calls = <<>>
    /\ result = NotCalled
    /\ UploadIdle
    /\ SkipIdle
    /\ ConnIdle
    /\ ClientGiven
    /\ CliIdle

\* start_time = time.time(); some time may pass before the loop's first
\* clock reading
Call ==
    /\ pc = "call"
    /\ start_time' = now
    /\ \E d \in Durations : now' = now + d
    /\ pc' = "loop"
    /\ UNCHANGED <<handleVars, timeout, poll_interval, has_callback, status,
                   observed, notified, calls, result>>
    /\ UNCHANGED <<outsidePoll, connVars>>

\* variant of the deadline test with >= for >
TimedOutInclusive == now - start_time >= timeout

\* variant that skips the test until a status request has been made
TimedOutAfterFirstPoll == calls # <<>> /\ now - start_time > timeout

\* variant with the operands of the subtraction exchanged
TimedOutSwapped == start_time - now > timeout

\* the test `time.time() - start_time > timeout`
TimedOut == now - start_time > timeout

TimeoutMessage ==
    MSG.JOB \o JobId \o MSG.DID_NOT_COMPLETE \o FloatStr(timeout)
    \o MSG.SECONDS

\* the top of the loop: raise TimeoutError or go on to the status request
CheckTimeout ==
    /\ pc = "loop"
    /\ IF TimedOut
       THEN /\ result' = Raise("TimeoutError", TimeoutMessage, None)
            /\ pc' = "done"
       ELSE /\ pc' = "get_status"
            /\ UNCHANGED result
    /\ UNCHANGED <<handleVars, timeout, poll_interval, has_callback, now,
                   start_time, status, observed, notified, calls>>
    /\ UNCHANGED <<outsidePoll, connVars>>

\* variant in which a rate-limited request does not end the call
PropagatesUnlessRateLimited(out) == out.kind \notin {"ok", "RateLimitError"}

\* an exception raised by a request leaves wait_for_completion, which has
\* no try statement
Propagates(out) == out.kind # "ok"

\* status = self.get_job_status(job_id): the request, answered by one of
\* resps after one of durs ticks, then _handle_response
GetJobStatusFrom(resps, durs) ==
    /\ pc = "get_status"
    /\ Count(calls, "get_job_status") < MaxPolls
    /\ \E resp \in resps, d \in durs :
        /\ IF Failed(resp)
           THEN /\ outcome' = ConnectError
                /\ UNCHANGED response
           ELSE /\ response' = resp
                /\ outcome' = HandleResponse(resp)
        /\ now' = now + d
        /\ calls' = Append(calls, "get_job_status")
        /\ SendRequest("GET", PATH.JOBS \o JobId)
        /\ IF ~Propagates(outcome')
           THEN /\ status' = outcome'.value
                /\ observed' = Append(observed, outcome'.value)
                /\ pc' = "notify"
                /\ UNCHANGED result
           ELSE /\ result' = outcome'
                /\ pc' = "done"
                /\ UNCHANGED <<status, observed>>
    /\ UNCHANGED <<timeout, poll_interval, has_callback, start_time, notified>>
    /\ UNCHANGED outsidePoll

GetJobStatus == GetJobStatusFrom(StatusReplies, Durations)

\* variant that compares the status as received
JobStatusAsReceived(payload) == DictGet(payload, K.status, JStr(<<>>)).v

\* job_status = status.get("status", "").lower()
JobStatus(payload) == Lower(DictGet(payload, K.status, JStr(<<>>)).v)

\* variant that does not report a terminal status to the callback
NotifySkipsTerminal ==
    /\ pc = "notify"
    /\ IF has_callback /\ JobStatus(status) \notin {STR.completed, STR.failed}
       THEN /\ notified' = Append(notified, status)
            /\ calls' = Append(calls, "progress_callback")
       ELSE UNCHANGED <<notified, calls>>
    /\ pc' = "branch"
    /\ UNCHANGED <<handleVars, timeout, poll_interval, has_callback, now,
                   start_time, status, observed, result>>
    /\ UNCHANGED <<uploadVars, skipVars, credVars, connVars, loginVars,
                   checkVars, writes>>

\* if progress_callback: progress_callback(status)
Notify ==
    /\ pc = "notify"
    /\ IF has_callback
       THEN /\ notified' = Append(notified, status)
            /\ calls' = Append(calls, "progress_callback")
       ELSE UNCHANGED <<notified, calls>>
    /\ pc' = "branch"
    /\ UNCHANGED <<handleVars, timeout, poll_interval, has_callback, now,
                   start_time, status, observed, result>>
    /\ UNCHANGED <<uploadVars, skipVars, credVars, connVars, loginVars,
                   checkVars, writes>>

\* the callback given to wait_for_completion is not the progress display
NotifyPlain == Notify /\ UNCHANGED displayVars

\* variant that raises without the service's error text
AnalysisFailedNoText(payload) ==
    Raise("APIError", MSG.ANALYSIS_FAILED_PREFIX \o MSG.UNKNOWN_ERROR, None)

\* error = status.get("error", "Unknown error")
\* raise APIError(f"Analysis failed: {error}")
AnalysisFailed(payload) ==
    Raise("APIError",
          MSG.ANALYSIS_FAILED_PREFIX
          \o PyStr(DictGet(payload, K.error, JStr(MSG.UNKNOWN_ERROR))),
          None)

\* variant in which only the three known running statuses keep polling
NextPcStrict(job_status) ==
    IF job_status = STR.completed THEN "get_result"
    ELSE IF job_status = STR.failed THEN "failed"
    ELSE IF job_status \in {STR.pending, STR.running, STR.processing}
    THEN "sleep"
    ELSE "failed"

\* variant that goes back to the deadline test, before acting on the
\* status, once the deadline has passed
NextPcDeadlineFirst(job_status) ==
    IF now - start_time > timeout THEN "loop"
    ELSE IF job_status = STR.completed THEN "get_result"
    ELSE IF job_status = STR.failed THEN "failed"
    ELSE "sleep"

\* variant that fetches the result on either terminal status
NextPcFetchesOnFailed(job_status) ==
    IF job_status \in {STR.completed, STR.failed} THEN "get_result"
    ELSE "sleep"

\* the if/elif chain on job_status: where the loop goes next
NextPc(job_status) ==
    IF job_status = STR.completed THEN "get_result"
    ELSE IF job_status = STR.failed THEN "failed"
    ELSE IF job_status \in {STR.pending, STR.running, STR.processing}
    THEN "sleep"
    ELSE "sleep"

\* the branch on the lower-cased status
Branch ==
    /\ pc = "branch"
    /\ LET next == NextPc(JobStatus(status))
       IN  IF next = "failed"
           THEN /\ result' = AnalysisFailed(status)
                /\ pc' = "done"
           ELSE /\ pc' = next
                /\ UNCHANGED result
    /\ UNCHANGED <<handleVars, timeout, poll_interval, has_callback, now,
                   start_time, status, observed, notified, calls>>
    /\ UNCHANGED <<outsidePoll, connVars>>

\* return self.get_job_result(job_id)
GetJobResult ==
    /\ pc = "get_result"
    /\ \E resp \in ResultReplies, d \in Durations :
        /\ IF Failed(resp)
           THEN /\ outcome' = ConnectError
                /\ UNCHANGED response
           ELSE /\ response' = resp
                /\ outcome' = HandleResponse(resp)
        /\ now' = now + d
        /\ calls' = Append(calls, "get_job_result")
        /\ SendRequest("GET", PATH.JOBS \o JobId \o PATH.RESULT)
        /\ result' = outcome'
        /\ pc' = "done"
    /\ UNCHANGED <<timeout, poll_interval, has_callback, start_time, status,
                   observed, notified>>
    /\ UNCHANGED outsidePoll

\* time.sleep(poll_interval): at least poll_interval passes
Sleep ==
    /\ pc = "sleep"
    /\ \E d \in Durations : now' = now + poll_interval + d
    /\ calls' = Append(calls, "sleep")
    /\ pc' = "loop"
    /\ UNCHANGED <<handleVars, timeout, poll_interval, has_callback,
                   start_time, status, observed, notified, result>>
    /\ UNCHANGED <<outsidePoll, connVars>>

Next ==
    \/ Call
    \/ CheckTimeout
    \/ GetJobStatus
    \/ NotifyPlain
    \/ Branch
    \/ GetJobResult
    \/ Sleep

Spec == Init /\ [][Next]_vars

(***************************************************************************)
(* wait_for_completion on a job that never reaches a terminal status, with *)
(* every status request answered and taking at least one tick.  The call   *)
(* runs on one thread that is never suspended for good, hence the weak     *)
(* fairness of its steps.                                                  *)
(***************************************************************************)
NonTerminalResponses ==
    {Response(200, JsonBody(p)) :
        p \in {q \in StatusPayloads :
                  JobStatus(q) \notin {STR.completed, STR.failed}}}

GetJobStatusNonTerminal ==
    GetJobStatusFrom(NonTerminalResponses, {1})

NextLive ==
    \/ Call
    \/ CheckTimeout
    \/ GetJobStatusNonTerminal
    \/ NotifyPlain
    \/ Branch
    \/ Sleep

SpecLive == Init /\ [][NextLive]_vars /\ WF_vars(NextLive)

(***************************************************************************)
(* upload_addon applied to one path.                                       *)
(***************************************************************************)
\* wait_for_completion is not running
PollIdle ==
    /\ timeout = 0
    /\ poll_interval = 0
    /\ has_callback = FALSE
    /\ now = 0
    /\ start_time = 0
    /\ status = JNull
    /\ observed = <<>>
    /\ notified = <<>>
    /\ calls = <<>>
    /\ result = NotCalled

InitUpload ==
    /\ response = NoResponse
    /\ outcome = NotCalled
    /\ pc = "upload"
    /\ PollIdle
    /\ addon_path \in
          [ancestors : {<<>>, <<SEG.root, SEG.home>>,
                        <<SEG.root, SEG.home, SEG.venv>>, <<SEG.git>>},
           name : {SEG.addon, SEG.node_modules},
           kind : {"missing", "file", "dir"}]
    /\ tree \in IF IsDir(addon_path)
                THEN {t \in SUBSET RelPaths : Cardinality(t) <= MaxFiles}
                ELSE {{}}
    /\ files_read = {}
    /\ archive = <<>>
    /\ upload_result = NotCalled
    /\ SkipIdle
    /\ ConnIdle
    /\ ClientGiven
    /\ CliIdle

\* upload_addon(addon_path): the two checks, the ZIP, the POST and
\* _handle_response
UploadAddonRuns ==
    /\ IF ~Exists(addon_path)
       THEN /\ upload_result' =
                 Raise("FileNotFoundError",
                       MSG.PATH_NOT_FOUND \o PathStr(addon_path), None)
            /\ UNCHANGED <<handleVars, files_read, archive, connVars>>
       ELSE IF ~IsDir(addon_path)
       THEN /\ upload_result' =
                 Raise("ValueError",
                       MSG.NOT_A_DIRECTORY \o PathStr(addon_path), None)
            /\ UNCHANGED <<handleVars, files_read, archive, connVars>>
       ELSE /\ files_read' = Written(addon_path, tree)
            /\ archive' = ZipOf(addon_path, tree)
            /\ SendRequest("POST", PATH.UPLOAD)
            /\ \E reply \in UploadReplies :
                 IF Failed(reply)
                 THEN /\ upload_result' = ConnectError
                      /\ UNCHANGED handleVars
                 ELSE /\ response' = reply
                      /\ outcome' = HandleResponse(reply)
                      /\ upload_result' = outcome'
    /\ UNCHANGED <<addon_path, tree>>

\* one call of upload_addon on its own
UploadAddon ==
    /\ pc = "upload"
    /\ pc' = "uploaded"
    /\ UploadAddonRuns
    /\ UNCHANGED <<timeout, poll_interval, has_callback, now, start_time,
                   status, observed, notified, calls, result>>
    /\ UNCHANGED <<skipVars, credVars>>
    /\ UNCHANGED cliVars

NextUpload == UploadAddon

SpecUpload == InitUpload /\ [][NextUpload]_vars

(***************************************************************************)
(* _should_skip_file applied to one path.                                  *)
(***************************************************************************)
InitSkip ==
    /\ response = NoResponse
    /\ outcome = NotCalled
    /\ pc = "skip"
    /\ PollIdle
    /\ UploadIdle
    /\ skip_path \in PathsUpTo(MaxPathLen)
    /\ skip_result = None
    /\ ConnIdle
    /\ CredIdle
    /\ CliIdle

CallShouldSkipFile ==
    /\ pc = "skip"
    /\ pc' = "skipped"
    /\ skip_result' = Some(ShouldSkipFile(skip_path))
    /\ UNCHANGED <<handleVars, timeout, poll_interval, has_callback, now,
                   start_time, status, observed, notified, calls, result,
                   uploadVars, skip_path, connVars, credVars>>
    /\ UNCHANGED cliVars

NextSkip == CallShouldSkipFile

SpecSkip == InitSkip /\ [][NextSkip]_vars

(***************************************************************************)
(* One client: constructed from the three sources, used inside a `with`    *)
(* block, and left.                                                        *)
(***************************************************************************)
InitClient ==
    /\ response = NoResponse
    /\ outcome = NotCalled
    /\ pc = "new"
    /\ PollIdle
    /\ UploadIdle
    /\ SkipIdle
    /\ ConnIdle
    /\ arg_key \in {None, Some(<<>>), Some(KEY.valid)}
    /\ arg_url \in {None, Some(<<>>), Some(URL.example),
                    Some(URL.example_slash), Some(URL.example_slashes)}
    /\ environ \in Environs
    /\ config_file \in ConfigFiles
    /\ api_key = None
    /\ api_url = <<>>
    /\ CliIdle

\* QualidooClient(api_key=arg_key, api_url=arg_url)
Construct ==
    /\ pc = "new"
    /\ pc' = "constructed"
    /\ api_key' = Or(arg_key, GetApiKey(environ, config_file))
    /\ api_url' = RStripSlash(Or(arg_url, Some(GetApiUrl(environ)))[1])
    /\ UNCHANGED <<handleVars, timeout, poll_interval, has_callback, now,
                   start_time, status, observed, notified, calls, result,
                   uploadVars, skipVars, connVars, arg_key, arg_url, environ,
                   config_file>>
    /\ UNCHANGED cliVars

\* with ... as client: __enter__ returns self
Enter ==
    /\ pc = "constructed"
    /\ pc' = "in_with"
    /\ UNCHANGED <<handleVars, timeout, poll_interval, has_callback, now,
                   start_time, status, observed, notified, calls, result,
                   uploadVars, skipVars, connVars, credVars>>
    /\ UNCHANGED cliVars

\* what the service, or the network, may answer to GET /api/v1/auth/me
ValidateReplies ==
    {Response(200, JsonBody(JObj(<<>>))),
     Response(401, JsonBody(JObj(<<>>))),
     Response(403, JsonBody(JObj(<<<<K.detail, JStr(TXT.access_denied)>>>>))),
     Response(500, RawBody(TXT.bad_gateway)),
     ConnectFailure}

\* validate_key(): the request and _handle_response
ValidateKey ==
    /\ SendRequest("GET", PATH.AUTH_ME)
    /\ \E reply \in ValidateReplies :
         IF Failed(reply)
         THEN /\ outcome' = ConnectError
              /\ UNCHANGED response
         ELSE /\ response' = reply
              /\ outcome' = HandleResponse(reply)

\* client.validate_key() inside the block
ValidateKeyInWith ==
    /\ pc = "in_with"
    /\ Len(requests) < MaxRequests
    /\ ValidateKey
    /\ IF outcome'.kind = "ok"
       THEN UNCHANGED <<pc, result>>
       ELSE /\ pc' = "raising"
            /\ result' = outcome'
    /\ UNCHANGED <<timeout, poll_interval, has_callback, now, start_time,
                   status, observed, notified, calls, uploadVars, skipVars,
                   credVars>>
    /\ UNCHANGED cliVars

\* wait_for_completion past its deadline, or upload_addon on a bad path
RaiseInWith ==
    /\ pc = "in_with"
    /\ pc' = "raising"
    /\ result' \in {Raise("TimeoutError", TimeoutMessage, None),
                   Raise("FileNotFoundError", MSG.PATH_NOT_FOUND, None),
                   Raise("ValueError", MSG.NOT_A_DIRECTORY, None)}
    /\ UNCHANGED <<handleVars, timeout, poll_interval, has_callback, now,
                   start_time, status, observed, notified, calls, uploadVars,
                   skipVars, connVars, credVars>>
    /\ UNCHANGED cliVars

\* save_config(config): the file is created if need be and rewritten
SaveConfig(config) ==
    /\ config_file' = GoodFile(config)
    /\ writes' = writes + 1

\* set_api_key(key): load_config, config["api_key"] = key, save_config
SetApiKey(key) ==
    SaveConfig(DictSet(LoadConfig(config_file), K.api_key, JStr(key)))

\* the stored key is replaced while the client lives
KeyStoredMeanwhile ==
    /\ pc \in {"constructed", "in_with"}
    /\ ConfigGet(LoadConfig(config_file), K.api_key) # Some(KEY.new)
    /\ SetApiKey(KEY.new)
    /\ UNCHANGED <<handleVars, pollVars, uploadVars, skipVars, connVars,
                   arg_key, arg_url, environ, api_key, api_url>>
    /\ UNCHANGED <<displayVars, loginVars, checkVars>>

\* variant of close() that leaves the connection as it is
CloseKeepsConnection == UNCHANGED connVars

\* close(): if self._client: self._client.close(); self._client = None
Close ==
    IF conn # None
    THEN /\ conn' = None
         /\ closed' = closed + 1
         /\ UNCHANGED <<created, requests>>
    ELSE UNCHANGED connVars

\* the block is left, normally or by an exception: __exit__ calls close()
\* and returns None, so a pending exception goes on to the caller
Exit ==
    /\ pc \in {"in_with", "raising"}
    /\ pc' = "exited"
    /\ Close
    /\ UNCHANGED <<handleVars, timeout, poll_interval, has_callback, now,
                   start_time, status, observed, notified, calls, result,
                   uploadVars, skipVars, credVars>>
    /\ UNCHANGED cliVars

NextClient ==
    \/ Construct
    \/ Enter
    \/ ValidateKeyInWith
    \/ RaiseInWith
    \/ KeyStoredMeanwhile
    \/ Exit

SpecClient == InitClient /\ [][NextClient]_vars

(***************************************************************************)
(* The wait of the check command: wait_for_completion with the progress    *)
(* display of create_progress_callback, and the finally clause that stops  *)
(* it.                                                                     *)
(***************************************************************************)
\* f"Analyzing... ({job_status})" with job_status = status.get("status", "unknown")
Description(payload) ==
    <<"A", "n", "a", "l", "y", "z", "i", "n", "g", ".", ".", ".", " ", "(">>
    \o PyStr(DictGet(payload, K.status,
                     JStr(<<"u", "n", "k", "n", "o", "w", "n">>)))
    \o <<")">>

\* variant of the callback that starts the display on every call
ProgressCallbackAlwaysStarts ==
    /\ display' = display \o <<[op |-> "start", text |-> <<>>],
                               [op |-> "add_task", text |-> Description(status)]>>
    /\ started' = TRUE
    /\ UNCHANGED stops

\* the closure `callback` of create_progress_callback, called with status
ProgressCallback ==
    /\ IF ~started
       THEN /\ display' =
                 display \o <<[op |-> "start", text |-> <<>>],
                              [op |-> "add_task", text |-> Description(status)]>>
            /\ started' = TRUE
       ELSE /\ display' =
                 Append(display, [op |-> "update", text |-> Description(status)])
            /\ UNCHANGED started
    /\ UNCHANGED stops

\* the callback given to wait_for_completion is the progress display
NotifyProgress ==
    /\ Notify
    /\ IF has_callback THEN ProgressCallback ELSE UNCHANGED displayVars

\* finally: progress_cb.stop(), that is progress.stop() if started else None
StopProgress ==
    /\ pc = "done"
    /\ pc' = "stopped"
    /\ stops' = stops + 1
    /\ IF started
       THEN display' = Append(display, [op |-> "stop", text |-> <<>>])
       ELSE UNCHANGED display
    /\ UNCHANGED <<handleVars, timeout, poll_interval, has_callback, now,
                   start_time, status, observed, notified, calls, result,
                   started, uploadVars, skipVars, connVars, credVars,
                   loginVars, checkVars, writes>>

\* check calls wait_for_completion(job_id, timeout=float(timeout),
\* progress_callback=progress_cb): the poll interval is the default
InitProgress ==
    /\ response = NoResponse
    /\ outcome = NotCalled
    /\ pc = "call"
    /\ timeout \in Timeouts
    /\ poll_interval = DefaultPollInterval
    /\ has_callback = TRUE
    /\ now = 0
    /\ start_time = 0
    /\ status = JNull
    /\ observed = <<>>
    /\ notified = <<>>
    /\ calls = <<>>
    /\ result = NotCalled
    /\ UploadIdle
    /\ SkipIdle
    /\ ConnIdle
    /\ ClientGiven
    /\ CliIdle

NextProgress ==
    \/ Call
    \/ CheckTimeout
    \/ GetJobStatus
    \/ NotifyProgress
    \/ Branch
    \/ GetJobResult
    \/ Sleep
    \/ StopProgress

SpecProgress == InitProgress /\ [][NextProgress]_vars

(***************************************************************************)
(* The login command.                                                      *)
(***************************************************************************)
\* the characters of the class [a-zA-Z0-9]
AlnumChars ==
    {UpperLetters[i] : i \in 1..Len(UpperLetters)}
    \cup {LowerLetters[i] : i \in 1..Len(LowerLetters)}
    \cup {DigitChars[i] : i \in 1..Len(DigitChars)}

\* validate_api_key_format(key): API_KEY_PATTERN.match(key), where the
\* final $ also matches before one newline that ends the text
ValidateApiKeyFormat(key) ==
    LET body == IF key # <<>> /\ key[Len(key)] = "\n"
                THEN SubSeq(key, 1, Len(key) - 1)
                ELSE key
    IN  /\ Len(body) >= Len(API_KEY_PREFIX) + MinKeyBody
        /\ SubSeq(body, 1, Len(API_KEY_PREFIX)) = API_KEY_PREFIX
        /\ \A i \in (Len(API_KEY_PREFIX) + 1)..Len(body) :
              body[i] \in AlnumChars

\* the key login works with: the option if it is given and not empty,
\* else what was typed at the prompt
EnteredKey(input) ==
    IF Truthy(input.option) THEN input.option[1] ELSE input.typed

\* keys a user may pass or type
KeyTexts ==
    {<<>>, KEY.valid, KEY.valid \o <<"\n">>, KEY.short, KEY.special,
     KEY.wrong_prefix, KEY.upper_prefix, KEY.config}

\* what the service, or the network, may answer to login's validate_key
LoginReplies == ValidateReplies \cup {Response(200, RawBody(TXT.bad_gateway))}

InitLogin ==
    /\ response = NoResponse
    /\ outcome = NotCalled
    /\ pc = "login"
    /\ PollIdle
    /\ UploadIdle
    /\ SkipIdle
    /\ ConnIdle
    /\ arg_key = None
    /\ arg_url = None
    /\ environ \in Environs
    /\ config_file \in ConfigFiles
    /\ api_key = None
    /\ api_url = <<>>
    /\ started = FALSE
    /\ display = <<>>
    /\ stops = 0
    /\ key_input \in [option : {None} \cup {Some(k) : k \in KeyTexts},
                       typed : KeyTexts]
    /\ exit_code = None
    /\ set_calls = <<>>
    /\ printed = <<>>
    /\ save = "none"
    /\ save_file = None
    /\ pending = None
    /\ writes = 0

\* the prompt, the two local checks and QualidooClient(api_key=api_key)
LoginCheckKey ==
    /\ pc = "login"
    /\ IF EnteredKey(key_input) = <<>>
          \/ ~ValidateApiKeyFormat(EnteredKey(key_input))
       THEN /\ exit_code' = Some(1)
            /\ pc' = "exited"
            /\ UNCHANGED <<arg_key, api_key, api_url>>
       ELSE /\ arg_key' = Some(EnteredKey(key_input))
            /\ api_key' = Or(arg_key', GetApiKey(environ, config_file))
            /\ api_url' = RStripSlash(Or(arg_url, Some(GetApiUrl(environ)))[1])
            /\ pc' = "login_validate"
            /\ UNCHANGED exit_code
    /\ UNCHANGED <<handleVars, timeout, poll_interval, has_callback, now,
                   start_time, status, observed, notified, calls, result,
                   uploadVars, skipVars, connVars, arg_url, environ,
                   config_file, displayVars, key_input, set_calls,
                   checkVars, writes>>

\* user_info = client.validate_key() inside the with block
LoginValidate ==
    /\ pc = "login_validate"
    /\ pc' = "login_leave"
    /\ \E reply \in LoginReplies :
         /\ SendRequest("GET", PATH.AUTH_ME)
         /\ IF Failed(reply)
            THEN /\ outcome' = ConnectError
                 /\ UNCHANGED response
            ELSE /\ response' = reply
                 /\ outcome' = HandleResponse(reply)
    /\ result' = outcome'
    /\ UNCHANGED <<timeout, poll_interval, has_callback, now, start_time,
                   status, observed, notified, calls, uploadVars, skipVars,
                   credVars, cliVars>>

\* variant in which only the typed API errors are caught
LoginCatchesApiErrorsOnly(out) == out.kind \in APIErrorKinds

\* the except clauses of login: AuthenticationError, ForbiddenError,
\* APIError and Exception, each ending in typer.Exit(1)
LoginCatches(out) == out.kind # "ok"

\* the with block is left: __exit__ closes the client; an exception is
\* caught by one of the except clauses
LoginLeave ==
    /\ pc = "login_leave"
    /\ Close
    /\ IF LoginCatches(result)
       THEN /\ exit_code' = Some(1)
            /\ pc' = "exited"
       ELSE /\ pc' = "login_save"
            /\ UNCHANGED exit_code
    /\ UNCHANGED <<handleVars, timeout, poll_interval, has_callback, now,
                   start_time, status, observed, notified, calls, result,
                   uploadVars, skipVars, credVars, displayVars, key_input,
                   set_calls, checkVars, writes>>

\* set_api_key(api_key), the messages, and the normal end of the command
LoginSave ==
    /\ pc = "login_save"
    /\ pc' = "exited"
    /\ SetApiKey(EnteredKey(key_input))
    /\ set_calls' = Append(set_calls, EnteredKey(key_input))
    /\ exit_code' = Some(0)
    /\ UNCHANGED <<handleVars, timeout, poll_interval, has_callback, now,
                   start_time, status, observed, notified, calls, result,
                   uploadVars, skipVars, connVars, arg_key, arg_url, environ,
                   api_key, api_url, displayVars, key_input, checkVars>>

NextLogin ==
    \/ LoginCheckKey
    \/ LoginValidate
    \/ LoginLeave
    \/ LoginSave

SpecLogin == InitLogin /\ [][NextLogin]_vars

(***************************************************************************)
(* The stored key: set_api_key, remove_api_key and get_api_key called in   *)
(* any order on one config file.                                           *)
(***************************************************************************)
\* variant of del that leaves the entry in place
DictDelKeeps(obj, key) == obj

\* del config[key]
DictDel(obj, key) ==
    JObj(SelectSeq(obj.v, LAMBDA member : member[1] # key))

\* remove_api_key(): the file is written only when it held the entry
RemoveApiKey ==
    LET config == LoadConfig(config_file)
    IN  IF HasKey(config, K.api_key)
        THEN /\ SaveConfig(DictDel(config, K.api_key))
             /\ result' = Return(JBool(TRUE))
        ELSE /\ UNCHANGED <<config_file, writes>>
             /\ result' = Return(JBool(FALSE))

\* the keys handed to set_api_key
StoredKeys == {KEY.valid, KEY.new, <<>>}

InitConfig ==
    /\ response = NoResponse
    /\ outcome = NotCalled
    /\ pc = "config"
    /\ PollIdle
    /\ UploadIdle
    /\ SkipIdle
    /\ ConnIdle
    /\ arg_key = None
    /\ arg_url = None
    /\ environ \in {e \in Environs : e.QUALIDOO_API_KEY = None}
    /\ config_file \in ConfigFiles
    /\ api_key = None
    /\ api_url = <<>>
    /\ CliIdle

\* set_api_key(key)
CallSetApiKey ==
    /\ pc = "config"
    /\ Len(calls) < MaxCalls
    /\ \E key \in StoredKeys :
         /\ SetApiKey(key)
         /\ calls' = Append(calls, [op |-> "set_api_key", key |-> key])
    /\ result' = Return(JNull)
    /\ UNCHANGED <<handleVars, pc, timeout, poll_interval, has_callback, now,
                   start_time, status, observed, notified, uploadVars,
                   skipVars, connVars, arg_key, arg_url, environ, api_key,
                   api_url, displayVars, loginVars, checkVars>>

\* remove_api_key()
CallRemoveApiKey ==
    /\ pc = "config"
    /\ Len(calls) < MaxCalls
    /\ RemoveApiKey
    /\ calls' = Append(calls, [op |-> "remove_api_key", key |-> <<>>])
    /\ UNCHANGED <<handleVars, pc, timeout, poll_interval, has_callback, now,
                   start_time, status, observed, notified, uploadVars,
                   skipVars, connVars, arg_key, arg_url, environ, api_key,
                   api_url, displayVars, loginVars, checkVars>>

\* get_api_key()
CallGetApiKey ==
    /\ pc = "config"
    /\ Len(calls) < MaxCalls
    /\ LET key == GetApiKey(environ, config_file)
       IN  result' = Return(IF key = None THEN JNull ELSE JStr(key[1]))
    /\ calls' = Append(calls, [op |-> "get_api_key", key |-> <<>>])
    /\ UNCHANGED <<handleVars, pc, timeout, poll_interval, has_callback, now,
                   start_time, status, observed, notified, uploadVars,
                   skipVars, connVars, credVars, cliVars>>

NextConfig ==
    \/ CallSetApiKey
    \/ CallRemoveApiKey
    \/ CallGetApiKey

SpecConfig == InitConfig /\ [][NextConfig]_vars

(***************************************************************************)
(* The --save file of check: json.dump(result, f, indent=2, default=str)   *)
(* and what json.load makes of the text.  Numbers are integers here.       *)
(***************************************************************************)
\* with indent=2 every item starts on a line of its own, two more spaces
\* in for every level of nesting
NewlineIndent(level) == <<"\n">> \o [i \in 1..(2 * level) |-> " "]

RECURSIVE DumpIndent(_, _)
RECURSIVE DumpIndentItems(_, _)
RECURSIVE DumpIndentMembers(_, _)
\* json.dumps(j, indent=2) for a value nested `level` deep
DumpIndent(j, level) ==
    CASE j.t = "null" -> STR.null
      [] j.t = "bool" -> IF j.v THEN <<"t", "r", "u", "e">>
                         ELSE <<"f", "a", "l", "s", "e">>
      [] j.t = "str"  -> Quoted(j.v)
      [] j.t = "num"  -> IntStr(j.v)
      [] j.t = "list" ->
           IF j.v = <<>> THEN <<"[", "]">>
           ELSE <<"[">> \o NewlineIndent(level + 1)
                \o DumpIndentItems(j.v, level + 1)
                \o NewlineIndent(level) \o <<"]">>
      [] j.t = "obj"  ->
           IF j.v = <<>> THEN <<"{", "}">>
           ELSE <<"{">> \o NewlineIndent(level + 1)
                \o DumpIndentMembers(j.v, level + 1)
                \o NewlineIndent(level) \o <<"}">>

DumpIndentItems(items, level) ==
    DumpIndent(Head(items), level)
    \o (IF Len(items) > 1
        THEN <<",">> \o NewlineIndent(level)
             \o DumpIndentItems(Tail(items), level)
        ELSE <<>>)

DumpIndentMembers(members, level) ==
    Quoted(Head(members)[1]) \o <<":", " ">>
    \o DumpIndent(Head(members)[2], level)
    \o (IF Len(members) > 1
        THEN <<",">> \o NewlineIndent(level)
             \o DumpIndentMembers(Tail(members), level)
        ELSE <<>>)

\* the decoder: a scan either fails or yields a value and the position
\* after it
ScanFails == [ok |-> FALSE, value |-> JNull, next |-> 0]

Scanned(value, next) == [ok |-> TRUE, value |-> value, next |-> next]

RECURSIVE SkipWhitespace(_, _)
SkipWhitespace(text, i) ==
    IF i <= Len(text) /\ text[i] \in {" ", "\n", "\t", "\r"}
    THEN SkipWhitespace(text, i + 1)
    ELSE i

\* the literal `lit` stands at position i
HasAt(text, i, lit) ==
    /\ i + Len(lit) - 1 <= Len(text)
    /\ SubSeq(text, i, i + Len(lit) - 1) = lit

IsDigit(c) == \E d \in 1..10 : DigitChars[d] = c

DigitValue(c) == (CHOOSE d \in 1..10 : DigitChars[d] = c) - 1

RECURSIVE ScanString(_, _, _)
\* after the opening quote: up to the closing quote, undoing the escapes;
\* a raw control character ends the scan in failure
ScanString(text, i, acc) ==
    IF i > Len(text) \/ text[i] = "\n" THEN ScanFails
    ELSE IF text[i] = "\"" THEN Scanned(acc, i + 1)
    ELSE IF text[i] = "\\"
    THEN IF i + 1 > Len(text) THEN ScanFails
         ELSE IF text[i + 1] \in {"\"", "\\", "/"}
         THEN ScanString(text, i + 2, Append(acc, text[i + 1]))
         ELSE IF text[i + 1] = "n"
         THEN ScanString(text, i + 2, Append(acc, "\n"))
         ELSE ScanFails
    ELSE ScanString(text, i + 1, Append(acc, text[i]))

RECURSIVE ScanDigits(_, _, _)
ScanDigits(text, i, acc) ==
    IF i <= Len(text) /\ IsDigit(text[i])
    THEN ScanDigits(text, i + 1, 10 * acc + DigitValue(text[i]))
    ELSE Scanned(acc, i)

\* an integer: an optional minus sign and at least one digit
ScanNumber(text, i) ==
    LET negative == text[i] = "-"
        first == IF negative THEN i + 1 ELSE i
        digits == ScanDigits(text, first, 0)
    IN  IF digits.next = first THEN ScanFails
        ELSE Scanned(JNum(IF negative THEN -digits.value ELSE digits.value),
                     digits.next)

RECURSIVE ScanValue(_, _)
RECURSIVE ScanItems(_, _, _)
RECURSIVE ScanMembers(_, _, _)
ScanValue(text, start) ==
    LET i == SkipWhitespace(text, start)
    IN  IF i > Len(text) THEN ScanFails
        ELSE IF HasAt(text, i, STR.null) THEN Scanned(JNull, i + 4)
        ELSE IF HasAt(text, i, <<"t", "r", "u", "e">>)
        THEN Scanned(JBool(TRUE), i + 4)
        ELSE IF HasAt(text, i, <<"f", "a", "l", "s", "e">>)
        THEN Scanned(JBool(FALSE), i + 5)
        ELSE IF text[i] = "\""
        THEN LET s == ScanString(text, i + 1, <<>>)
             IN  IF s.ok THEN Scanned(JStr(s.value), s.next) ELSE ScanFails
        ELSE IF text[i] = "-" \/ IsDigit(text[i]) THEN ScanNumber(text, i)
        ELSE IF text[i] = "["
        THEN LET j == SkipWhitespace(text, i + 1)
             IN  IF j <= Len(text) /\ text[j] = "]"
                 THEN Scanned(JList(<<>>), j + 1)
                 ELSE ScanItems(text, j, <<>>)
        ELSE IF text[i] = "{"
        THEN LET j == SkipWhitespace(text, i + 1)
             IN  IF j <= Len(text) /\ text[j] = "}"
                 THEN Scanned(JObj(<<>>), j + 1)
                 ELSE ScanMembers(text, j, JObj(<<>>))
        ELSE ScanFails

\* the items of a list, from the start of an item to the closing bracket
ScanItems(text, start, acc) ==
    LET item == ScanValue(text, start)
        j == SkipWhitespace(text, item.next)
    IN  IF ~item.ok \/ j > Len(text) THEN ScanFails
        ELSE IF text[j] = ","
        THEN ScanItems(text, j + 1, Append(acc, item.value))
        ELSE IF text[j] = "]"
        THEN Scanned(JList(Append(acc, item.value)), j + 1)
        ELSE ScanFails

\* the members of an object, from the start of a key to the closing brace;
\* a key met again replaces its value, as in a dict
ScanMembers(text, start, acc) ==
    LET i == SkipWhitespace(text, start)
        key == IF i <= Len(text) /\ text[i] = "\""
               THEN ScanString(text, i + 1, <<>>)
               ELSE ScanFails
        colon == SkipWhitespace(text, key.next)
        member == IF key.ok /\ colon <= Len(text) /\ text[colon] = ":"
                  THEN ScanValue(text, colon + 1)
                  ELSE ScanFails
        j == SkipWhitespace(text, member.next)
    IN  IF ~member.ok \/ j > Len(text) THEN ScanFails
        ELSE IF text[j] = ","
        THEN ScanMembers(text, j + 1, DictSet(acc, key.value, member.value))
        ELSE IF text[j] = "}"
        THEN Scanned(DictSet(acc, key.value, member.value), j + 1)
        ELSE ScanFails

\* json.load on the text of a file: one value and nothing after it
JsonLoad(text) ==
    LET scan == ScanValue(text, 1)
    IN  IF scan.ok /\ SkipWhitespace(text, scan.next) = Len(text) + 1
        THEN Return(scan.value)
        ELSE Raise("JSONDecodeError", <<>>, None)

(***************************************************************************)
(* The check command: the key and manifest checks, the client, the upload, *)
(* the wait with its progress display, the rendering and the --save file.  *)
(* The path argument has passed typer's checks: it is an existing          *)
(* directory, resolved.                                                    *)
(***************************************************************************)
\* typer.Exit(1); str() of it is "1"
Exit1 == Raise("Exit", CLI.one, None)

\* variant of the test that only asks for a value other than None
JsonNotNone(j) == j # JNull

\* the Python truth of a JSON value, as in `if not job_id`
JsonTruthy(j) ==
    CASE j.t = "null" -> FALSE
      [] j.t = "bool" -> j.v
      [] j.t = "num"  -> j.v # 0
      [] OTHER        -> j.v # <<>>

\* print_analysis_result(result, ...): result.get needs a dict, the score
\* comparisons and the .1f format a number; the sample results hold no
\* agent_results and no top_issues
RenderOutcome(payload) ==
    IF payload.t # "obj" THEN Raise("AttributeError", <<>>, None)
    ELSE IF DictGet(payload, K.overall_score, JNum(0)).t \notin {"num", "bool"}
    THEN Raise("TypeError", <<>>, None)
    ELSE Return(JNull)

\* save_path.open("w")
OpenOutcome ==
    IF save = "unwritable"
    THEN Raise("PermissionError", CLI.permission_denied, None)
    ELSE Return(JNull)

\* variant of the save step's handler that catches ValueError only
SaveCatchesValueError(exc) == exc.kind = "ValueError"

\* `except Exception as e` around the save step
SaveCatches(exc) == exc.kind # "ok"

\* the three except clauses of the outer try, in order: TimeoutError,
\* APIError, Exception; typer.Exit is a RuntimeError and ends in the last
OuterMessage(exc) ==
    IF exc.kind = "TimeoutError"
    THEN CLI.TIMED_OUT \o IntStr(timeout) \o CLI.SECONDS
    ELSE IF exc.kind \in APIErrorKinds
    THEN CLI.API_ERROR \o exc.message
    ELSE CLI.UNEXPECTED \o exc.message

\* the message of the except clauses around upload_addon
UploadRejectedMessage(exc) ==
    CASE exc.kind = "AuthenticationError" -> CLI.AUTH_FAILED
      [] exc.kind = "ForbiddenError"      -> exc.message
      [] exc.kind = "RateLimitError"      -> CLI.RATE_LIMIT

InitCheck ==
    /\ response = NoResponse
    /\ outcome = NotCalled
    /\ pc = "check"
    /\ timeout \in Timeouts
    /\ poll_interval = DefaultPollInterval
    /\ has_callback = TRUE
    /\ now = 0
    /\ start_time = 0
    /\ status = JNull
    /\ observed = <<>>
    /\ notified = <<>>
    /\ calls = <<>>
    /\ result = NotCalled
    /\ addon_path = [ancestors |-> <<SEG.root, SEG.home>>,
                     name |-> SEG.addon, kind |-> "dir"]
    /\ tree \in {{<<SEG.manifest>>, <<SEG.init_py>>}, {<<SEG.init_py>>}}
    /\ files_read = {}
    /\ archive = <<>>
    /\ upload_result = NotCalled
    /\ SkipIdle
    /\ ConnIdle
    /\ arg_key = None
    /\ arg_url = None
    /\ environ \in {e \in Environs : e.QUALIDOO_API_URL = None}
    /\ config_file \in {NoFile,
                        GoodFile(JObj(<<<<K.api_key, JStr(KEY.config)>>>>))}
    /\ api_key = None
    /\ api_url = <<>>
    /\ started = FALSE
    /\ display = <<>>
    /\ stops = 0
    /\ key_input = None
    /\ exit_code = None
    /\ set_calls = <<>>
    /\ printed = <<>>
    /\ save \in {"none", "writable", "unwritable"}
    /\ save_file = None
    /\ pending = None
    /\ writes = 0

\* get_api_key(), the manifest test and QualidooClient(api_key=api_key);
\* the two typer.Exit(1) here are raised before the try statement
CheckStart ==
    /\ pc = "check"
    /\ LET key == GetApiKey(environ, config_file)
       IN  IF ~Truthy(key)
           THEN /\ printed' = Append(printed, CLI.NOT_LOGGED_IN)
                /\ exit_code' = Some(1)
                /\ pc' = "exited"
                /\ UNCHANGED <<arg_key, api_key, api_url>>
           ELSE IF <<SEG.manifest>> \notin tree
           THEN /\ printed' =
                     Append(printed, CLI.NOT_AN_ADDON \o PathStr(addon_path))
                /\ exit_code' = Some(1)
                /\ pc' = "exited"
                /\ UNCHANGED <<arg_key, api_key, api_url>>
           ELSE /\ arg_key' = key
                /\ api_key' = Or(arg_key', GetApiKey(environ, config_file))
                /\ api_url' =
                     RStripSlash(Or(arg_url, Some(GetApiUrl(environ)))[1])
                /\ pc' = "check_upload"
                /\ UNCHANGED <<printed, exit_code>>
    /\ UNCHANGED <<handleVars, timeout, poll_interval, has_callback, now,
                   start_time, status, observed, notified, calls, result,
                   uploadVars, skipVars, connVars, arg_url, environ,
                   config_file, displayVars, key_input, set_calls, save,
                   save_file, pending, writes>>

\* upload_result = client.upload_addon(path) and its three except clauses,
\* each of which prints and raises typer.Exit(1) inside the outer try
CheckUpload ==
    /\ pc = "check_upload"
    /\ UploadAddonRuns
    /\ calls' = Append(calls, "upload_addon")
    /\ IF upload_result'.kind = "ok"
       THEN /\ pc' = "check_job_id"
            /\ UNCHANGED <<printed, pending>>
       ELSE IF upload_result'.kind \in {"AuthenticationError",
                                        "ForbiddenError", "RateLimitError"}
       THEN /\ printed' = Append(printed, UploadRejectedMessage(upload_result'))
            /\ pending' = Some(Exit1)
            /\ pc' = "check_raising"
       ELSE /\ pending' = Some(upload_result')
            /\ pc' = "check_raising"
            /\ UNCHANGED printed
    /\ UNCHANGED <<timeout, poll_interval, has_callback, now, start_time,
                   status, observed, notified, result, skipVars, credVars,
                   displayVars, loginVars, save, save_file, writes>>

\* job_id = upload_result.get("job_id"); if not job_id: ...; then
\* create_progress_callback() and the call of wait_for_completion
CheckJobId ==
    /\ pc = "check_job_id"
    /\ IF upload_result.value.t # "obj"
       THEN /\ pending' = Some(Raise("AttributeError", <<>>, None))
            /\ pc' = "check_raising"
            /\ UNCHANGED <<printed, calls>>
       ELSE IF ~JsonTruthy(DictGet(upload_result.value, K.job_id, JNull))
       THEN /\ printed' = Append(printed, CLI.NO_JOB_ID)
            /\ pending' = Some(Exit1)
            /\ pc' = "check_raising"
            /\ UNCHANGED calls
       ELSE /\ calls' = Append(calls, "wait_for_completion")
            /\ pc' = "call"
            /\ UNCHANGED <<printed, pending>>
    /\ UNCHANGED <<handleVars, timeout, poll_interval, has_callback, now,
                   start_time, status, observed, notified, result,
                   uploadVars, skipVars, connVars, credVars, displayVars,
                   loginVars, save, save_file, writes>>

\* after the finally clause: an exception of wait_for_completion goes on
\* to the outer try; a result is passed to print_analysis_result
CheckRender ==
    /\ pc = "stopped"
    /\ IF result.kind # "ok"
       THEN /\ pending' = Some(result)
            /\ pc' = "check_raising"
            /\ UNCHANGED calls
       ELSE /\ calls' = Append(calls, "print_analysis_result")
            /\ IF RenderOutcome(result.value).kind = "ok"
               THEN /\ pc' = "check_save"
                    /\ UNCHANGED pending
               ELSE /\ pending' = Some(RenderOutcome(result.value))
                    /\ pc' = "check_raising"
    /\ UNCHANGED <<handleVars, timeout, poll_interval, has_callback, now,
                   start_time, status, observed, notified, result,
                   uploadVars, skipVars, connVars, credVars, displayVars,
                   loginVars, printed, save, save_file, writes>>

\* if save: the file is opened and written inside try/except Exception;
\* then the with block and the command end
CheckSave ==
    /\ pc = "check_save"
    /\ IF save = "none"
       THEN /\ pc' = "exited"
            /\ exit_code' = Some(0)
            /\ Close
            /\ UNCHANGED <<calls, printed, save_file, pending>>
       ELSE /\ calls' = Append(calls, "open")
            /\ IF OpenOutcome.kind = "ok"
               THEN /\ save_file' = Some(DumpIndent(result.value, 0))
                    /\ pc' = "exited"
                    /\ exit_code' = Some(0)
                    /\ Close
                    /\ UNCHANGED <<printed, pending>>
               ELSE IF SaveCatches(OpenOutcome)
               THEN /\ printed' =
                         Append(printed, CLI.SAVE_FAILED \o OpenOutcome.message)
                    /\ pc' = "exited"
                    /\ exit_code' = Some(0)
                    /\ Close
                    /\ UNCHANGED <<save_file, pending>>
               ELSE /\ pending' = Some(OpenOutcome)
                    /\ pc' = "check_raising"
                    /\ UNCHANGED <<printed, save_file, exit_code, connVars>>
    /\ UNCHANGED <<handleVars, timeout, poll_interval, has_callback, now,
                   start_time, status, observed, notified, result,
                   uploadVars, skipVars, credVars, displayVars, key_input,
                   set_calls, save, writes>>

\* an exception leaves the with block (__exit__ closes the client) and is
\* caught by the outer try: a message and typer.Exit(1)
CheckExcept ==
    /\ pc = "check_raising"
    /\ Close
    /\ printed' = Append(printed, OuterMessage(pending[1]))
    /\ exit_code' = Some(1)
    /\ pc' = "exited"
    /\ UNCHANGED <<handleVars, timeout, poll_interval, has_callback, now,
                   start_time, status, observed, notified, calls, result,
                   uploadVars, skipVars, credVars, displayVars, key_input,
                   set_calls, save, save_file, pending, writes>>

NextCheck ==
    \/ CheckStart
    \/ CheckUpload
    \/ CheckJobId
    \/ Call
    \/ CheckTimeout
    \/ GetJobStatus
    \/ NotifyProgress
    \/ Branch
    \/ GetJobResult
    \/ Sleep
    \/ StopProgress
    \/ CheckRender
    \/ CheckSave
    \/ CheckExcept

SpecCheck == InitCheck /\ [][NextCheck]_vars

(***************************************************************************)
(* One client used without a `with` block: requests and close() calls in   *)
(* any order.                                                              *)
(***************************************************************************)
InitReuse ==
    /\ response = NoResponse
    /\ outcome = NotCalled
    /\ pc = "new"
    /\ PollIdle
    /\ UploadIdle
    /\ SkipIdle
    /\ ConnIdle
    /\ arg_key \in {None, Some(KEY.valid)}
    /\ arg_url \in {None, Some(URL.example_slash)}
    /\ environ = NoEnviron
    /\ config_file \in {NoFile,
                        GoodFile(JObj(<<<<K.api_key, JStr(KEY.config)>>>>))}
    /\ api_key = None
    /\ api_url = <<>>
    /\ CliIdle

\* a request on the client: validate_key(); an exception it raises leaves
\* the client as it is
RequestCall ==
    /\ pc = "constructed"
    /\ Len(requests) < MaxRequests
    /\ ValidateKey
    /\ calls' = Append(calls, "validate_key")
    /\ UNCHANGED <<pc, timeout, poll_interval, has_callback, now, start_time,
                   status, observed, notified, result, uploadVars, skipVars,
                   credVars, cliVars>>

\* client.close()
CloseCall ==
    /\ pc = "constructed"
    /\ Count(calls, "close") < MaxCloses
    /\ Close
    /\ calls' = Append(calls, "close")
    /\ UNCHANGED <<handleVars, pc, timeout, poll_interval, has_callback, now,
                   start_time, status, observed, notified, result,
                   uploadVars, skipVars, credVars, cliVars>>

NextReuse ==
    \/ Construct
    \/ RequestCall
    \/ CloseCall

SpecReuse == InitReuse /\ [][NextReuse]_vars

(***************************************************************************)
(* Vocabulary of the properties.                                           *)
(***************************************************************************)
Last(seq) == seq[Len(seq)]

\* two characters that are the same letter, whatever their case
SameLetter(c1, c2) ==
    \/ c1 = c2
    \/ \E i \in 1..Len(UpperLetters) :
           {c1, c2} = {UpperLetters[i], LowerLetters[i]}

\* two texts equal up to letter case
EqualsAnyCase(a, b) ==
    /\ Len(a) = Len(b)
    /\ \A i \in 1..Len(a) : SameLetter(a[i], b[i])

\* text hay contains text needle in some letter case
ContainsAnyCase(hay, needle) ==
    \E i \in 0..(Len(hay) - Len(needle)) :
        EqualsAnyCase(SubSeq(hay, i + 1, i + Len(needle)), needle)

\* a payload whose status field is `text` in some letter case
StatusIs(payload, text) ==
    /\ HasKey(payload, K.status)
    /\ EqualsAnyCase(DictGet(payload, K.status, JNull).v, text)

IsCompleted(payload) == StatusIs(payload, STR.completed)

IsFailed(payload) == StatusIs(payload, STR.failed)

IsNonTerminal(payload) == ~IsCompleted(payload) /\ ~IsFailed(payload)

StartsWith(text, prefix) ==
    /\ Len(text) >= Len(prefix)
    /\ SubSeq(text, 1, Len(prefix)) = prefix

StatusRequests == Count(calls, "get_job_status")

ResultRequests == Count(calls, "get_job_result")

\* the calls made since (and without) the last status request
CallsSinceLastStatusRequest ==
    LET at == CHOOSE i \in 1..Len(calls) :
                  /\ calls[i] = "get_job_status"
                  /\ \A j \in (i + 1)..Len(calls) : calls[j] # "get_job_status"
    IN  SubSeq(calls, at + 1, Len(calls))

TimedOutResult == pc = "done" /\ result.kind = "TimeoutError"

(***************************************************************************)
(* C1: an iteration of wait_for_completion that starts with more than      *)
(* `timeout` elapsed since the call began raises TimeoutError and makes no *)
(* call; a status request is issued only by an iteration whose deadline    *)
(* test has passed (elapsed <= timeout); TimeoutError is none of the       *)
(* APIError classes.                                                       *)
(***************************************************************************)
C1_DeadlineCheckedBeforeStatusRequest ==
    [][ /\ (pc = "loop" /\ now - start_time > timeout)
           => /\ pc' = "done"
              /\ result'.kind = "TimeoutError"
              /\ result'.kind \notin APIErrorKinds
              /\ calls' = calls
        /\ (Count(calls', "get_job_status") > Count(calls, "get_job_status"))
           => /\ pc = "get_status"
              /\ now - start_time <= timeout
      ]_vars

\* a call that polled at least once and then ran into the deadline
C1_Witness == TimedOutResult /\ StatusRequests >= 1 /\ timeout >= 0

(***************************************************************************)
(* C2 as claimed: with timeout <= 0 the call never gets past its first     *)
(* deadline test: no status request, no notification, no result request,   *)
(* and it ends with TimeoutError.                                          *)
(***************************************************************************)
C2_Original ==
    timeout <= 0
    => /\ pc \in {"call", "loop", "done"}
       /\ calls = <<>>
       /\ notified = <<>>
       /\ (pc = "done" => result.kind = "TimeoutError")

(***************************************************************************)
(* C2 amended: with timeout < 0 the call never gets past its first         *)
(* deadline test (TimeoutError, no request, no notification).  With        *)
(* timeout = 0 the first iteration times out only if the clock has         *)
(* advanced since start_time was read; if both readings are equal the      *)
(* first status request is issued.                                         *)
(***************************************************************************)
C2_NonPositiveTimeout ==
    /\ timeout < 0
       => /\ pc \in {"call", "loop", "done"}
          /\ calls = <<>>
          /\ notified = <<>>
          /\ (pc = "done" => result.kind = "TimeoutError")
    /\ (timeout = 0 /\ calls = <<>> /\ pc = "done")
       => (result.kind = "TimeoutError" /\ now > start_time)
    /\ (timeout = 0 /\ calls = <<>> /\ pc = "get_status")
       => now = start_time

\* a call with a negative timeout that timed out at once
C2_Witness == timeout < 0 /\ TimedOutResult /\ calls = <<>> /\ notified = <<>>

(***************************************************************************)
(* C3: with a progress callback, the payloads notified are exactly the     *)
(* payloads observed, in order, each notified right after its status       *)
(* request and before anything else is called; a run that ends by          *)
(* requesting the result has observed n non-terminal payloads and then     *)
(* 'completed' and has made n + 1 notifications.  Without a callback       *)
(* nothing is notified.                                                    *)
(***************************************************************************)
C3_OneNotificationPerObservedStatus ==
    /\ has_callback
       => /\ notified = IF pc = "notify"
                        THEN SubSeq(observed, 1, Len(observed) - 1)
                        ELSE observed
          /\ \A i \in 1..(Len(calls) - 1) :
                calls[i] = "get_job_status" => calls[i + 1] = "progress_callback"
          /\ \A i \in 2..Len(calls) :
                calls[i] = "progress_callback" => calls[i - 1] = "get_job_status"
          /\ (pc = "branch" => Last(calls) = "progress_callback")
          /\ ResultRequests >= 1
             => /\ IsCompleted(Last(observed))
                /\ \A i \in 1..(Len(observed) - 1) : IsNonTerminal(observed[i])
                /\ Len(notified) = Len(observed)
    /\ ~has_callback => notified = <<>>

\* the run [pending, running, completed]: three notifications
C3_Witness ==
    /\ has_callback
    /\ pc = "done"
    /\ result.kind = "ok"
    /\ Len(observed) = 3
    /\ StatusIs(observed[1], STR.pending)
    /\ StatusIs(observed[2], STR.running)
    /\ notified = observed

(***************************************************************************)
(* C4: once a status that is 'completed' in any letter case has been       *)
(* observed, the loop makes no further status request and does not sleep;  *)
(* it requests the result exactly once and ends with what that request     *)
(* gave: the parsed body of the result response, unchanged.                *)
(***************************************************************************)
C4_CompletedFetchesResultOnce ==
    (observed # <<>> /\ IsCompleted(Last(observed)))
    => /\ pc \in {"notify", "branch", "get_result", "done"}
       /\ StatusRequests = Len(observed)
       /\ Count(CallsSinceLastStatusRequest, "sleep") = 0
       /\ ResultRequests = IF pc = "done" THEN 1 ELSE 0
       /\ pc = "done"
          => /\ Last(calls) = "get_job_result"
             /\ result = ConnectError \/ response \in ResultResponses
             /\ (result # ConnectError /\ response.status_code < 400)
                => /\ result.kind = "ok"
                   /\ result.value = response.body.json

\* a status spelled COMPLETED ended the loop with the result returned
C4_Witness ==
    /\ pc = "done"
    /\ result.kind = "ok"
    /\ observed # <<>>
    /\ DictGet(Last(observed), K.status, JNull) = JStr(TXT.COMPLETED)
    /\ HasKey(result.value, K.overall_score)
    /\ DictGet(result.value, K.overall_score, JNull) = JNum(85)

(***************************************************************************)
(* C5: once a status that is 'failed' in any letter case has been          *)
(* observed, the loop makes no further request and does not sleep, and it  *)
(* ends by raising the plain APIError (no status code) whose message is    *)
(* "Analysis failed: " followed by the payload's error text, or by         *)
(* "Unknown error" when the payload has no error field.                    *)
(***************************************************************************)
C5_FailedRaisesAnalysisFailed ==
    (observed # <<>> /\ IsFailed(Last(observed)))
    => /\ pc \in {"notify", "branch", "done"}
       /\ StatusRequests = Len(observed)
       /\ Count(CallsSinceLastStatusRequest, "sleep") = 0
       /\ ResultRequests = 0
       /\ pc = "done"
          => /\ result.kind = "APIError"
             /\ result.status_code = None
             /\ StartsWith(result.message, MSG.ANALYSIS_FAILED_PREFIX)
             /\ (HasKey(Last(observed), K.error)
                 /\ DictGet(Last(observed), K.error, JNull).t = "str")
                => Contains(result.message,
                            DictGet(Last(observed), K.error, JNull).v)
             /\ ~HasKey(Last(observed), K.error)
                => Contains(result.message, MSG.UNKNOWN_ERROR)

\* a status spelled FAILED with an error text ended the loop with that text
C5_Witness ==
    /\ pc = "done"
    /\ observed # <<>>
    /\ DictGet(Last(observed), K.status, JNull) = JStr(TXT.FAILED)
    /\ DictGet(Last(observed), K.error, JNull) = JStr(TXT.invalid_addon)
    /\ result.kind = "APIError"
    /\ Contains(result.message, TXT.invalid_addon)

(***************************************************************************)
(* C6: the branch on a status that is neither 'completed' nor 'failed'     *)
(* (pending, running, processing, anything else, or no status field) goes  *)
(* to the sleep, which lasts at least poll_interval and leads back to the  *)
(* top of the loop; the call returns a result only after 'completed' and   *)
(* raises Analysis-Failed only after 'failed'.                             *)
(***************************************************************************)
C6_NonTerminalStatusKeepsPolling ==
    /\ [][ /\ (pc = "branch" /\ IsNonTerminal(status))
              => (pc' = "sleep" /\ result' = result /\ calls' = calls)
           /\ pc = "sleep"
              => /\ pc' = "loop"
                 /\ calls' = Append(calls, "sleep")
                 /\ now' >= now + poll_interval
                 /\ result' = result
         ]_vars
    /\ [](pc = "done"
          => /\ result.kind = "ok" => IsCompleted(Last(observed))
             /\ StartsWith(result.message, MSG.ANALYSIS_FAILED_PREFIX)
                => IsFailed(Last(observed)))

\* a payload without status field was followed by a sleep and a new iteration
C6_Witness ==
    /\ pc = "loop"
    /\ observed # <<>>
    /\ Last(observed) = JObj(<<>>)
    /\ Last(calls) = "sleep"

(***************************************************************************)
(* C7: for a job that never reaches a terminal status, with every status   *)
(* request taking at least one tick, the call ends with TimeoutError and   *)
(* never requests the result; it issues its k-th status request only if    *)
(* k - 1 poll cycles (one tick and one sleep each) fit into the timeout,   *)
(* so a timeout shorter than one cycle allows a single status request.     *)
(***************************************************************************)
C7_NonTerminalJobTimesOut ==
    /\ <>TimedOutResult
    /\ [](pc # "get_result" /\ ResultRequests = 0)
    /\ [](StatusRequests >= 1
          => (StatusRequests - 1) * (1 + poll_interval) <= timeout)
    /\ [](pc = "done" => result.kind = "TimeoutError")

\* a timeout shorter than one poll cycle: one status request, then TimeoutError
C7_Witness ==
    /\ TimedOutResult
    /\ timeout >= 0
    /\ timeout < 1 + poll_interval
    /\ StatusRequests = 1
    /\ ResultRequests = 0

(***************************************************************************)
(* C8 as claimed: the outcome kind of _handle_response is a function of    *)
(* the status code alone: 401, 403, 404 and 429 raise their own class, any *)
(* other code >= 400 raises the plain APIError, and any code < 400 returns *)
(* the parsed body.                                                        *)
(***************************************************************************)
KindForStatus(code) ==
    CASE code = 401 -> "AuthenticationError"
      [] code = 403 -> "ForbiddenError"
      [] code = 404 -> "NotFoundError"
      [] code = 429 -> "RateLimitError"
      [] code >= 400 /\ code \notin {401, 403, 404, 429} -> "APIError"
      [] code < 400 -> "ok"

C8_KindDependsOnStatusOnly ==
    outcome # NotCalled
    => /\ outcome.kind = KindForStatus(response.status_code)
       /\ outcome.kind = "ok" => outcome.value = response.body.json

\* the body is a JSON object with a detail member
HasDetail(resp) ==
    resp.body.json.t = "obj" /\ HasKey(resp.body.json, K.detail)

DetailOf(resp) == DictGet(resp.body.json, K.detail, JNull)

(***************************************************************************)
(* C9: for a 403 response whose detail is a text, or that has no detail    *)
(* (then the detail text is empty), ForbiddenError is raised with status   *)
(* code 403, and its message is the upgrade prompt iff the detail text     *)
(* contains "tier" or "subscription" in some letter case; otherwise it is  *)
(* "Access forbidden: " followed by the detail text.                       *)
(***************************************************************************)
C9_ForbiddenMessage ==
    (outcome # NotCalled /\ response.status_code = 403)
    => LET isText == HasDetail(response) /\ DetailOf(response).t = "str"
           text == IF isText THEN DetailOf(response).v ELSE <<>>
           upgrade == \/ ContainsAnyCase(text, STR.tier)
                      \/ ContainsAnyCase(text, STR.subscription)
       IN  (isText \/ ~HasDetail(response))
           => /\ outcome.kind = "ForbiddenError"
              /\ outcome.status_code = Some(403)
              /\ (outcome.message = MSG.UPGRADE) <=> upgrade
              /\ ~upgrade => outcome.message = MSG.FORBIDDEN_PREFIX \o text

\* a detail with TIER in capitals gave the upgrade prompt
C9_Witness ==
    /\ response.status_code = 403
    /\ HasDetail(response)
    /\ DetailOf(response) = JStr(TXT.free_tier_limit)
    /\ outcome.kind = "ForbiddenError"
    /\ outcome.message = MSG.UPGRADE

(***************************************************************************)
(* C10: for a status code >= 400 other than 401, 403, 404 and 429 the      *)
(* plain APIError is raised, carrying that status code; its message is     *)
(* "API error: " followed by the detail (as str() formats it) when the     *)
(* body is a JSON object with a detail member, and by the raw body text    *)
(* otherwise.                                                              *)
(***************************************************************************)
C10_GenericErrorMessage ==
    (/\ outcome # NotCalled
     /\ response.status_code >= 400
     /\ response.status_code \notin {401, 403, 404, 429})
    => /\ outcome.kind = "APIError"
       /\ outcome.status_code = Some(response.status_code)
       /\ StartsWith(outcome.message, MSG.API_ERROR_PREFIX)
       /\ HasDetail(response)
          => /\ Contains(outcome.message, PyStr(DetailOf(response)))
             /\ DetailOf(response).t = "str"
                => outcome.message
                   = MSG.API_ERROR_PREFIX \o DetailOf(response).v
       /\ ~HasDetail(response)
          => outcome.message = MSG.API_ERROR_PREFIX \o response.body.text

\* a 500 whose body is not JSON raised APIError with the body text
C10_Witness ==
    /\ response = Response(500, RawBody(TXT.bad_gateway))
    /\ outcome.kind = "APIError"
    /\ outcome.status_code = Some(500)
    /\ Contains(outcome.message, TXT.bad_gateway)

(***************************************************************************)
(* C11 as claimed: whatever the body of a response with status >= 400      *)
(* (not JSON, JSON that is not an object, an object whose detail is not a  *)
(* string), _handle_response raises the APIError class that belongs to the *)
(* status code, with that status code, and no other exception type.        *)
(***************************************************************************)
C11_DetailFailureNeverMasksStatus ==
    (outcome # NotCalled /\ response.status_code >= 400)
    => /\ outcome.kind \in APIErrorKinds
       /\ outcome.kind = KindForStatus(response.status_code)
       /\ outcome.status_code = Some(response.status_code)

(***************************************************************************)
(* C12: upload_addon fails with FileNotFoundError when the path does not   *)
(* exist and with ValueError when it exists but is not a directory; in     *)
(* both cases no file has been read, no connection has been created and no *)
(* request has been sent.                                                  *)
(***************************************************************************)
C12_UploadFailsFast ==
    pc = "uploaded" =>
        /\ addon_path.kind = "missing"
              => upload_result.kind = "FileNotFoundError"
        /\ addon_path.kind = "file" => upload_result.kind = "ValueError"
        /\ addon_path.kind # "dir"
              => /\ files_read = {}
                 /\ DOMAIN archive = {}
                 /\ conn = None
                 /\ created = 0
                 /\ requests = <<>>

C12_Witness ==
    /\ pc = "uploaded"
    /\ addon_path.kind = "file"
    /\ upload_result.kind = "ValueError"
    /\ requests = <<>>

\* the name the archive is to give the file at relative path rel
EntryName(rel) == addon_path.name \o <<"/">> \o JoinPath(rel)

\* upload_addon's filter excludes the file at relative path rel
Excluded(rel) == ShouldSkipFile(PathParts(addon_path) \o rel)

\* the file at rel lies under a directory of one of the five names
UnderListedDir(rel) ==
    \E i \in 1..(Len(rel) - 1) :
        rel[i] \in {SEG.pycache, SEG.git, SEG.venv, SEG.dot_venv,
                    SEG.node_modules}

HasPycSuffix(rel) == EndsWith(Last(rel), SEG.pyc)

ListedDirNames ==
    {SEG.pycache, SEG.git, SEG.svn, SEG.hg, SEG.egg_info, SEG.eggs,
     SEG.node_modules, SEG.dot_venv, SEG.venv}

ListedExtensions == {SEG.pyc, SEG.pyo}

(***************************************************************************)
(* C14: _should_skip_file excludes a file iff some segment of its path     *)
(* equals a listed directory name or the file's name ends with .pyc or     *)
(* .pyo.                                                                   *)
(***************************************************************************)
C14_SkipIffListedSegmentOrExtension ==
    skip_result # None =>
        (skip_result[1]
            <=> \/ \E i \in 1..Len(skip_path) : skip_path[i] \in ListedDirNames
                \/ \E e \in ListedExtensions : EndsWith(Last(skip_path), e))

\* the api_key the config file holds, if any
PersistedKey ==
    IF config_file.kind = "toml" /\ HasKey(config_file.data, K.api_key)
    THEN Some(DictGet(config_file.data, K.api_key, JNull).v)
    ELSE None

\* the api_url the config file holds, if any
PersistedUrl ==
    IF config_file.kind = "toml" /\ HasKey(config_file.data, K.api_url)
    THEN Some(DictGet(config_file.data, K.api_url, JNull).v)
    ELSE None

(***************************************************************************)
(* C15: the token of a client is resolved once, at construction, as the    *)
(* first source that is present (not None and not empty) among the         *)
(* constructor argument, QUALIDOO_API_KEY and the config file's api_key;   *)
(* with none present the client has no token.  The token never changes     *)
(* afterwards, and it is the X-API-Key the connection is created with.     *)
(***************************************************************************)
C15_TokenPrecedence ==
    [][/\ pc = "new" =>
            IF Truthy(arg_key) THEN api_key' = arg_key
            ELSE IF Truthy(environ.QUALIDOO_API_KEY)
            THEN api_key' = environ.QUALIDOO_API_KEY
            ELSE IF Truthy(PersistedKey) THEN api_key' = PersistedKey
            ELSE ~Truthy(api_key')
       /\ pc # "new" => api_key' = api_key
       /\ conn' # None =>
            conn'[1].headers.x_api_key
                = IF Truthy(api_key') THEN api_key' ELSE None]_vars

C15_Witness ==
    /\ pc = "exited"
    /\ arg_key = Some(<<>>)
    /\ environ.QUALIDOO_API_KEY = None
    /\ api_key = Some(KEY.config)
    /\ PersistedKey = Some(KEY.new)
    /\ requests # <<>>

(***************************************************************************)
(* C16: the base URL of a client is the constructor argument, else         *)
(* QUALIDOO_API_URL, else the api_url persisted in the config file (and    *)
(* the built-in default when there is none), trailing slashes removed.     *)
(***************************************************************************)
C16_UrlPrecedenceWithPersisted ==
    pc # "new" =>
        api_url = RStripSlash(IF Truthy(arg_url) THEN arg_url[1]
                              ELSE IF environ.QUALIDOO_API_URL # None
                              THEN environ.QUALIDOO_API_URL[1]
                              ELSE IF PersistedUrl # None THEN PersistedUrl[1]
                              ELSE DEFAULT_API_URL)

(***************************************************************************)
(* C17: constructing a client creates no connection; the first request     *)
(* creates the one connection, which later requests reuse; once the with   *)
(* block is left, normally or by an exception, every connection created    *)
(* has been closed and the client holds none; an exception raised in the   *)
(* block is still pending after the exit.                                  *)
(***************************************************************************)
C17_LazyConnectionClosedOnExit ==
    /\ [](/\ requests = <<>> => (conn = None /\ created = 0)
          /\ (requests # <<>> /\ pc \in {"in_with", "raising"})
                => (conn # None /\ created = 1 /\ closed = 0)
          /\ pc = "exited" => (conn = None /\ closed = created))
    /\ [][pc = "raising" => (pc' = "exited" /\ result' = result
                             /\ result'.kind # "NotCalled")]_vars

C17_Witness ==
    /\ pc = "exited"
    /\ result.kind = "AuthenticationError"
    /\ Len(requests) = MaxRequests
    /\ created = 1
    /\ closed = 1
    /\ conn = None

\* how many entries of the display log are the operation op
Ops(op) == Cardinality({i \in 1..Len(display) : display[i].op = op})

(***************************************************************************)
(* C18: in the check command the progress display is started at most once, *)
(* by the first status notification; every later notification is an        *)
(* update; when polling has ended, whatever the outcome, the next step     *)
(* calls stop() once, which stops a started display and does nothing to a  *)
(* display that was never started; nothing happens to the display after    *)
(* the stop.                                                               *)
(***************************************************************************)
C18_ProgressLifecycle ==
    /\ [](/\ started <=> notified # <<>>
          /\ Ops("start") = (IF notified = <<>> THEN 0 ELSE 1)
          /\ notified # <<>> =>
                /\ display[1].op = "start"
                /\ Ops("update") = Len(notified) - 1
                /\ \A i \in 3..Len(display) :
                      display[i].op = "update"
                      \/ (i = Len(display) /\ display[i].op = "stop")
          /\ stops = (IF pc = "stopped" THEN 1 ELSE 0)
          /\ Ops("stop") = (IF pc = "stopped" /\ started THEN 1 ELSE 0)
          /\ notified = <<>> => display = <<>>)
    /\ [][pc = "done" => (pc' = "stopped" /\ result' = result)]_vars

C18_Witness ==
    /\ pc = "stopped"
    /\ result.kind = "TimeoutError"
    /\ Len(notified) = 2
    /\ Ops("update") = 1
    /\ Last(display).op = "stop"

(***************************************************************************)
(* C19: when a status or result request made by wait_for_completion fails, *)
(* with a typed error or with a transport failure, the call ends in that   *)
(* very step with that error, the failed request is not notified, and      *)
(* nothing follows: no request, no sleep, no notification.                 *)
(***************************************************************************)
C19_NoAutomaticRetry ==
    [][/\ (Len(requests') > Len(requests) /\ outcome'.kind # "ok")
          => /\ pc' = "done"
             /\ result' = outcome'
             /\ notified' = notified
             /\ observed' = observed
             /\ Len(calls') = Len(calls) + 1
       /\ pc # "done"]_vars

C19_Witness ==
    /\ pc = "done"
    /\ result.kind = "RateLimitError"
    /\ result.status_code = Some(429)
    /\ StatusRequests = 2
    /\ Last(calls) = "get_job_status"
    /\ Len(notified) = 1

(***************************************************************************)
(* C20: login calls set_api_key only after the format check and the remote *)
(* validate_key have both succeeded, then exactly once and with the        *)
(* entered key, and ends with exit code 0; on every failure (empty key,    *)
(* bad format, AuthenticationError, ForbiddenError, another APIError, a    *)
(* connection error) it ends with exit code 1, and the config file changes *)
(* in no step but that one set_api_key.                                    *)
(***************************************************************************)
C20_LoginPersistsAfterBothChecks ==
    /\ [](/\ set_calls # <<>>
             => /\ set_calls = <<EnteredKey(key_input)>>
                /\ ValidateApiKeyFormat(EnteredKey(key_input))
                /\ result.kind = "ok"
                /\ Len(requests) = 1
                /\ PersistedKey = Some(EnteredKey(key_input))
                /\ exit_code = Some(0)
          /\ pc = "exited"
             => IF /\ EnteredKey(key_input) # <<>>
                   /\ ValidateApiKeyFormat(EnteredKey(key_input))
                   /\ result.kind = "ok"
                THEN exit_code = Some(0) /\ Len(set_calls) = 1
                ELSE exit_code = Some(1) /\ set_calls = <<>>)
    /\ [][config_file' # config_file
             => (pc = "login_save" /\ Len(set_calls') = Len(set_calls) + 1)]_vars

C20_Witness ==
    /\ pc = "exited"
    /\ exit_code = Some(0)
    /\ key_input.option = None
    /\ set_calls = <<KEY.valid>>
    /\ PersistedKey = Some(KEY.valid)
    /\ conn = None
    /\ closed = 1

\* the positions in the history of the calls that write: set and remove
WritingCalls ==
    {i \in 1..Len(calls) :
       calls[i].op \in {"set_api_key", "remove_api_key"}}

\* the latest of them
LastWritingCall ==
    CHOOSE i \in WritingCalls : \A j \in WritingCalls : j <= i

\* the call just made is `op`
JustCalled(op) == calls # <<>> /\ Last(calls).op = op

(***************************************************************************)
(* C21: with QUALIDOO_API_KEY unset, over any sequence of set_api_key and  *)
(* remove_api_key calls on the config file, get_api_key returns the key    *)
(* most recently set if no remove_api_key followed it, and None if one     *)
(* did; remove_api_key returns True exactly when the file held a key when  *)
(* it was called, so the second of two consecutive remove_api_key calls    *)
(* returns False.                                                          *)
(***************************************************************************)
C21_StoredKeyFollowsLastCall ==
    /\ [](JustCalled("get_api_key") /\ WritingCalls # {}
          => result =
               IF calls[LastWritingCall].op = "set_api_key"
               THEN Return(JStr(calls[LastWritingCall].key))
               ELSE Return(JNull))
    /\ [](/\ Len(calls) >= 2
          /\ calls[Len(calls)].op = "remove_api_key"
          /\ calls[Len(calls) - 1].op = "remove_api_key"
          => result = Return(JBool(FALSE)))
    /\ [][Len(calls') = Len(calls) + 1 /\ Last(calls').op = "remove_api_key"
          => result' = Return(JBool(PersistedKey # None))]_vars

\* a key is set, removed, removed once more (which returns False), and
\* get_api_key then returns None
C21_Witness ==
    /\ Len(calls) = 4
    /\ calls[1] = [op |-> "set_api_key", key |-> KEY.new]
    /\ calls[2].op = "remove_api_key"
    /\ calls[3].op = "remove_api_key"
    /\ calls[4].op = "get_api_key"
    /\ result = Return(JNull)
    /\ writes = 2

\* the entries of the config file other than api_key, as load_config reads
\* them
OtherEntries(file) ==
    {member \in {LoadConfig(file).v[i] : i \in 1..Len(LoadConfig(file).v)} :
       member[1] # K.api_key}

(***************************************************************************)
(* C22: set_api_key and remove_api_key change only the api_key entry of    *)
(* the config file: the other entries that load_config reads before the    *)
(* call are there with the same values after it, and no other entry is     *)
(* added; remove_api_key on a config without api_key writes nothing.       *)
(***************************************************************************)
C22_OnlyApiKeyEntryChanges ==
    [][/\ OtherEntries(config_file') = OtherEntries(config_file)
       /\ (/\ Len(calls') = Len(calls) + 1
           /\ Last(calls').op = "remove_api_key"
           /\ PersistedKey = None
           => writes' = writes /\ config_file' = config_file)]_vars

\* on a file holding only api_url: a remove_api_key that writes nothing,
\* then a key set and removed again, the api_url still in place
C22_Witness ==
    /\ Len(calls) = 3
    /\ calls[1].op = "remove_api_key"
    /\ calls[2].op = "set_api_key"
    /\ calls[3].op = "remove_api_key"
    /\ writes = 2
    /\ config_file = GoodFile(JObj(<<<<K.api_url, JStr(URL.custom)>>>>))

(***************************************************************************)
(* C23: saving a result with check --save and loading the file again       *)
(* gives the same structured value: json.load of the text written equals   *)
(* the result, in every run that saved, and for every sample result        *)
(* payload, rendered or not.                                               *)
(***************************************************************************)
C23_SaveLoadRoundTrip ==
    /\ save_file # None => JsonLoad(save_file[1]) = Return(result.value)
    /\ \A payload \in ResultPayloads :
          JsonLoad(DumpIndent(payload, 0)) = Return(payload)

\* a run that saved a result holding a string that needs escaping
C23_Witness ==
    /\ pc = "exited"
    /\ save_file # None
    /\ exit_code = Some(0)
    /\ \E i \in 1..Len(result.value.v) :
          /\ result.value.v[i][2].t = "str"
          /\ Contains(result.value.v[i][2].v, <<"\"">>)

(***************************************************************************)
(* C24: within one call of wait_for_completion the result is requested at  *)
(* most once, and only by the step that follows the observation of a       *)
(* 'completed' status while the call has not ended; it is never requested  *)
(* after a 'failed' status, after a timeout, after a status request that   *)
(* failed, or while every observed status is non-terminal.                 *)
(***************************************************************************)
C24_ResultRequestedOnlyAfterCompleted ==
    /\ [](/\ ResultRequests <= 1
          /\ ResultRequests = 1
             => /\ observed # <<>>
                /\ IsCompleted(Last(observed))
                /\ StatusRequests = Len(observed)
          /\ (\E i \in 1..Len(observed) : IsFailed(observed[i]))
             => ResultRequests = 0
          /\ TimedOutResult => ResultRequests = 0
          /\ StatusRequests > Len(observed) => ResultRequests = 0
          /\ (\A i \in 1..Len(observed) : IsNonTerminal(observed[i]))
             => ResultRequests = 0)
    /\ [][Count(calls', "get_job_result") > Count(calls, "get_job_result")
          => /\ result = NotCalled
             /\ observed # <<>>
             /\ IsCompleted(Last(observed))
             /\ observed' = observed]_vars

\* two non-terminal statuses, then 'completed', then the one result request
C24_Witness ==
    /\ pc = "done"
    /\ Len(observed) = 3
    /\ IsNonTerminal(observed[1])
    /\ IsNonTerminal(observed[2])
    /\ IsCompleted(observed[3])
    /\ ResultRequests = 1
    /\ Last(calls) = "get_job_result"

\* how often the check command called upload_addon, wait_for_completion
\* and print_analysis_result, and how often it opened the --save file
Uploads == Count(calls, "upload_addon")

Waits == Count(calls, "wait_for_completion")

Renderings == Count(calls, "print_analysis_result")

SaveAttempts == Count(calls, "open")

\* the upload returned a dict whose job_id is a non-empty string
UploadGaveJobId ==
    /\ upload_result.kind = "ok"
    /\ upload_result.value.t = "obj"
    /\ HasKey(upload_result.value, K.job_id)
    /\ DictGet(upload_result.value, K.job_id, JNull).t = "str"
    /\ DictGet(upload_result.value, K.job_id, JNull).v # <<>>

(***************************************************************************)
(* C25: a run of the check command that reaches its try block (a key is    *)
(* configured and the manifest exists) makes exactly one upload, and no    *)
(* run makes more than one; at most one poll loop follows, and it starts   *)
(* only after the upload returned a non-empty job_id: otherwise the run    *)
(* ends with exit code 1 and without a single status or result request.    *)
(* The result is rendered, and the --save file opened, only after the      *)
(* poll loop returned a result.                                            *)
(***************************************************************************)
C25_SingleFlow ==
    /\ Uploads = IF pc \in {"check", "check_upload"} \/ arg_key = None
                 THEN 0 ELSE 1
    /\ Waits <= 1
    /\ Waits = 1
       => /\ UploadGaveJobId
          /\ calls[1] = "upload_addon"
          /\ calls[2] = "wait_for_completion"
    /\ (pc = "exited" /\ Uploads = 1 /\ ~UploadGaveJobId)
       => /\ exit_code = Some(1)
          /\ Waits = 0
          /\ StatusRequests = 0
          /\ ResultRequests = 0
    /\ (StatusRequests > 0 \/ ResultRequests > 0) => Waits = 1
    /\ Renderings <= 1
    /\ SaveAttempts <= 1
    /\ (Renderings = 1 \/ SaveAttempts = 1 \/ save_file # None)
       => /\ Waits = 1
          /\ result.kind = "ok"
          /\ stops = 1
          /\ pc \in {"check_save", "check_raising", "exited"}
    /\ SaveAttempts = 1
       => /\ Renderings = 1
          /\ calls[Len(calls) - 1] = "print_analysis_result"

\* a complete run: upload, a poll loop of two status requests and the
\* result request, rendering, and the file saved
C25_Witness ==
    /\ pc = "exited"
    /\ exit_code = Some(0)
    /\ Uploads = 1
    /\ Waits = 1
    /\ Len(observed) = 2
    /\ ResultRequests = 1
    /\ Renderings = 1
    /\ save_file # None
    /\ printed = <<>>

\* the run of the check command has ended in failure
CheckFailed == pc = "exited" /\ exit_code = Some(1)

(***************************************************************************)
(* C28: every failing run of the check command prints exactly one error    *)
(* message before it exits with code 1, whatever the failure: not logged   *)
(* in, missing manifest, upload rejected with AuthenticationError,         *)
(* ForbiddenError or RateLimitError, missing job_id, timeout, API error.   *)
(***************************************************************************)
C28_OneErrorMessagePerFailure ==
    /\ pc = "exited" => exit_code \in {Some(0), Some(1)}
    /\ CheckFailed => Len(printed) = 1

(***************************************************************************)
(* C30: in the check command a --save file that cannot be written does     *)
(* not change the outcome of the run: the result has been rendered, one    *)
(* error message naming the failure is printed, no exception leaves the    *)
(* save step, and the command exits with code 0, the client closed.        *)
(***************************************************************************)
C30_SaveFailureKeepsOutcome ==
    (save = "unwritable" /\ SaveAttempts = 1)
    => /\ pc = "exited"
       /\ exit_code = Some(0)
       /\ pending = None
       /\ Renderings = 1
       /\ printed = <<CLI.SAVE_FAILED \o CLI.permission_denied>>
       /\ save_file = None
       /\ conn = None

\* a run whose result was rendered and whose --save file could not be
\* opened
C30_Witness ==
    /\ pc = "exited"
    /\ save = "unwritable"
    /\ SaveAttempts = 1
    /\ Renderings = 1
    /\ Len(printed) = 1
    /\ exit_code = Some(0)

(***************************************************************************)
(* C26: whether upload_addon excludes a file depends only on the file's    *)
(* path relative to the addon root: a file is left out exactly when the    *)
(* filter skips its relative path, so the names of the root directory and  *)
(* of its ancestors never cause a file to be excluded.                     *)
(***************************************************************************)
C26_ExclusionDependsOnRelativePathOnly ==
    (pc = "uploaded" /\ IsDir(addon_path))
    => \A f \in tree :
          /\ f \in files_read <=> ~ShouldSkipFile(f)
          /\ EntryName(f) \in DOMAIN archive <=> ~ShouldSkipFile(f)

(***************************************************************************)
(* C27: wait_for_completion examines the deadline only at the start of an  *)
(* iteration, and strictly: an iteration that starts with elapsed time     *)
(* equal to the timeout goes on to its status request, and TimeoutError is *)
(* raised by no other step.  A status once observed is acted upon whatever *)
(* the clock says: after 'completed' the call ends with what the result    *)
(* request gives (the result, if the request succeeds), after 'failed'     *)
(* with the Analysis-failed APIError, never with TimeoutError.             *)
(***************************************************************************)
C27_DeadlineOnlyAtIterationStart ==
    /\ []((pc = "done" /\ observed # <<>> /\ IsCompleted(Last(observed)))
          => /\ result.kind # "TimeoutError"
             /\ Last(calls) = "get_job_result"
             /\ (result # ConnectError /\ response.status_code < 400)
                => result = Return(response.body.json))
    /\ []((pc = "done" /\ observed # <<>> /\ IsFailed(Last(observed)))
          => result = AnalysisFailed(Last(observed)))
    /\ [][(result'.kind = "TimeoutError" /\ result.kind # "TimeoutError")
          => /\ pc = "loop"
             /\ now - start_time > timeout
             /\ calls' = calls]_vars
    /\ [][(pc = "loop" /\ now - start_time <= timeout)
          => pc' = "get_status"]_vars
    /\ [][(pc \in {"notify", "branch", "get_result"})
          => (pc' \in {"branch", "get_result", "sleep", "done"})]_vars

\* the status request outlasted the deadline and brought 'failed': the
\* call ended with the Analysis-failed error
C27_Witness ==
    /\ pc = "done"
    /\ Len(observed) = 1
    /\ IsFailed(observed[1])
    /\ now - start_time > timeout
    /\ timeout >= 0
    /\ result = AnalysisFailed(observed[1])

\* the connections created and not yet closed
OpenConnections == created - closed

(***************************************************************************)
(* C29: over any sequence of requests and close() calls on one client, at  *)
(* most one connection is open at a time, and it is the one the client     *)
(* holds; close() closes it, so that every connection created so far is    *)
(* closed, and does nothing when none is open; a request made with no      *)
(* connection open, after close() as before the first request, creates a   *)
(* fresh one with the client's token and base URL, which stay as           *)
(* constructed, and a request made with one open uses it.                  *)
(***************************************************************************)
C29_OneConnectionAtATime ==
    /\ [](/\ OpenConnections = IF conn = None THEN 0 ELSE 1
          /\ conn # None => conn = Some(Connection(api_url, api_key)))
    /\ [][Count(calls', "close") > Count(calls, "close")
          => /\ conn' = None
             /\ closed' = created
             /\ created' = created
             /\ requests' = requests
             /\ conn = None => closed' = closed]_vars
    /\ [][Len(requests') > Len(requests)
          => /\ conn' = Some(Connection(api_url, api_key))
             /\ created' = IF conn = None THEN created + 1 ELSE created
             /\ closed' = closed
             /\ api_key' = api_key
             /\ api_url' = api_url
             /\ outcome' \in {HandleResponse(r) :
                                r \in ValidateReplies \ {ConnectFailure}}
                             \cup {ConnectError}]_vars

\* request, close, close again, request, close: two connections created,
\* both closed
C29_Witness ==
    /\ calls = <<"validate_key", "close", "close", "validate_key", "close">>
    /\ created = 2
    /\ closed = 2
    /\ conn = None
    /\ Len(requests) = 2

=============================================================================
